---- MODULE Spec2Model ----
(***************************************************************************)
(* Verification model of the project dependency analyzer                   *)
(* (src/src/dependencyManager.ts) and of the file catalog it consumes      *)
(* (src/src/deepseekapi.ts).                                               *)
(*                                                                         *)
(* Strings are modelled structurally: a path or a raw reference is a       *)
(* record [root, dir, base, ext]; the text of a file is a sequence of      *)
(* lines, each line one reference statement.                               *)
(***************************************************************************)
EXTENDS Integers, Sequences, FiniteSets, TLC

VARIABLES
    \* ---- cycle detector (findCircularDependencies) ----
    dependencyGraph,        \* the DependencyGraph handed to the detector
    circularDependencies,   \* the list of cycles collected so far
    startIdx,               \* position of the for-loop over nodes.keys()
    expandedLog,            \* per finished top-level start: nodes expanded
    cycPc                   \* "loop" | "done"

cycVars == <<dependencyGraph, circularDependencies, startIdx, expandedLog, cycPc>>

VARIABLES
    \* ---- analyzer (DependencyManager) and its environment ----
    workspaceRoot,          \* this.workspaceRoot: [known, dir]
    disk,                   \* the file system: path -> [exists, lines]
    diskChanges,            \* number of changes made to the disk so far
    dependencyCache,        \* this.dependencyCache: a Map path -> Dependency[]
    calls,                  \* the analyzeDependencies call of each caller
    build,                  \* the buildDependencyGraph call
    cacheWrites,            \* observation: dependencyCache.set calls per path
    firstResult             \* observation: result of the first completed call per path

anVars == <<workspaceRoot, disk, diskChanges, dependencyCache, calls, build,
            cacheWrites, firstResult>>

VARIABLES
    \* ---- summary reporter (generateDependencySummary) ----
    summary                 \* the generateDependencySummary call

VARIABLES
    \* ---- file catalog (ProjectScanner) ----
    tree,                   \* the directory tree under the workspace root
    scan,                   \* the scanWorkspace call and its per-entry tasks
    filter                  \* the filterFiles call

extVars == <<summary, tree, scan, filter>>

VARIABLES
    \* ---- queries on one file (DependencyManager) ----
    gfd,                    \* the getFileDependencies call and its nested calls
    rev                     \* the getFileReverseDependencies call

reqVars == <<gfd, rev>>

vars == <<cycVars, anVars, extVars, reqVars>>

-----------------------------------------------------------------------------
(* Generic helpers                                                         *)

Range(s) == {s[i] : i \in 1..Len(s)}

\* all duplicate-free sequences over S (iteration orders of subsets of S)
SetToSeqs(S) ==
    {s \in UNION {[1..n -> S] : n \in 0..Cardinality(S)} :
        \A i, j \in 1..Len(s) : i # j => s[i] # s[j]}

AllOrders(S) == {s \in SetToSeqs(S) : Len(s) = Cardinality(S)}

RECURSIVE SumSeq(_)
SumSeq(s) == IF s = <<>> THEN 0 ELSE Head(s) + SumSeq(Tail(s))

\* the analyzer before any call: no workspace, an empty disk, an empty cache
NoPath == [root |-> "", dir |-> <<>>, base |-> "", ext |-> ""]

NoFile == [path |-> NoPath, extension |-> "", type |-> "unknown", size |-> 0,
           content |-> [loaded |-> FALSE, lines |-> <<>>]]

\* a call of analyzeDependencies: pc is "idle", "reading" (awaiting readFile)
\* or "returned"; reads, matched, hit and late observe what the call did:
\* content reads, whether patterns were matched, whether it was answered
\* from the cache, whether a call for its path had completed when it began
IdleCall == [pc |-> "idle", file |-> NoFile, result |-> <<>>, reads |-> 0,
             matched |-> FALSE, hit |-> FALSE, late |-> FALSE]

EmptyGraph == [nodes |-> <<>>, edges |-> <<>>]

\* a call of buildDependencyGraph; results observes the list each
\* analyzeDependencies(file) returned to it, in catalog order, progress the
\* values handed to progressCallback, as fractions of 100
IdleBuild == [pc |-> "idle", catalog |-> <<>>, i |-> 0, graph |-> EmptyGraph,
              results |-> <<>>, progress |-> <<>>]

EmptyMap == [x \in {} |-> <<>>]

\* a call of generateDependencySummary not yet made; listed is the rendered
\* list of dependencies, circular the cycles of the warning block, and
\* beforeBuild observes that no graph build had begun when it returned
IdleSummary == [pc |-> "idle", path |-> NoPath, listed |-> <<>>, circular |-> <<>>,
                beforeBuild |-> FALSE]

\* a call of scanWorkspace not yet made
IdleScan == [pc |-> "idle", callback |-> FALSE, tasks |-> [q \in {} |-> <<>>],
             structure |-> [rootDirectories |-> <<>>, rootFiles |-> <<>>, allFiles |-> <<>>],
             n |-> 0, processedCount |-> 0, progress |-> <<>>, error |-> "",
             entered |-> 0, fsOps |-> 0]

\* a call of filterFiles not yet made
IdleFilter == [pc |-> "idle",
               criteria |-> [extensions |-> {}, maxSize |-> [defined |-> FALSE, value |-> 0]],
               result |-> <<>>, error |-> ""]

NoTree == [base |-> "", ext |-> "", kind |-> "dir", size |-> 0, fails |-> FALSE,
           entries |-> <<>>]

\* no summary requested, no scan requested
ExtIdle ==
    /\ summary = IdleSummary
    /\ tree = NoTree
    /\ scan = IdleScan
    /\ filter = IdleFilter

\* a call of getFileDependencies not yet made; stack holds the frames of the
\* call and of its nested calls (innermost last), deepest observes the
\* largest number of nested calls that were open at once
IdleGfd == [pc |-> "idle", path |-> NoPath, recursive |-> FALSE, maxDepth |-> 0,
            stack |-> <<>>, result |-> <<>>, deepest |-> 0, stats |-> 0]

\* a call of getFileReverseDependencies not yet made
IdleRev == [pc |-> "idle", target |-> NoPath, catalog |-> <<>>, i |-> 0,
            dependents |-> <<>>]

\* no query on a file requested
ReqIdle ==
    /\ gfd = IdleGfd
    /\ rev = IdleRev

AnalyzerIdle ==
    /\ workspaceRoot = [known |-> FALSE, dir |-> <<>>]
    /\ disk = EmptyMap
    /\ diskChanges = 0
    /\ dependencyCache = EmptyMap
    /\ calls = EmptyMap
    /\ build = IdleBuild
    /\ cacheWrites = EmptyMap
    /\ firstResult = EmptyMap

-----------------------------------------------------------------------------
(* Cycle detector                                                          *)

\* bound: number of edges of the graphs handed to the detector
MaxEdges == 6

CycNodes == {"A", "B", "C"}

\* Array.prototype.indexOf, 1-based; 0 stands for -1
indexOf(path, x) ==
    IF \E i \in 1..Len(path) : path[i] = x
    THEN CHOOSE i \in 1..Len(path) :
            path[i] = x /\ \A k \in 1..(i - 1) : path[k] # x
    ELSE 0

\* the Map keys of graph.edges.get(current), in insertion order;
\* empty when the map is undefined
edgeTargets(graph, current) ==
    IF current \in DOMAIN graph.edges
    THEN [i \in 1..Len(graph.edges[current]) |-> graph.edges[current][i].target]
    ELSE <<>>

\* path.slice(cycleIndex).concat(current), a mutation of it first
extractCycleNoSlice(path, cycleIndex, current) == path \o <<current>>

extractCycle(path, cycleIndex, current) ==
    SubSeq(path, cycleIndex, Len(path)) \o <<current>>

\* a mutation: a processed node is not remembered
markVisitedNever(visited, current) == visited

\* visited.add(current), after all outgoing edges were explored
markVisited(visited, current) == visited \cup {current}

\* a mutation: the rotation test never recognises a recorded cycle
isCycleRecordedNever(cycles, cycle) == FALSE

\* cycles.some(recordedCycle => ...): the rotation test of the source,
\* applied to the closed representation (first node repeated at the end)
isCycleRecorded(cycles, cycle) ==
    \E r \in 1..Len(cycles) :
        LET recordedCycle == cycles[r]
            L == Len(cycles[r])
        IN  /\ L = Len(cycle)
            /\ \E i \in 0..(L - 1) :
                  \A j \in 0..(L - 1) :
                      recordedCycle[j + 1] = cycle[((i + j) % L) + 1]


RECURSIVE dfsForCycles(_, _, _, _, _, _)
RECURSIVE dfsVisitAll(_, _, _, _, _, _, _)

\* returns the three objects the recursion mutates: the visited set, the
\* cycles array and (for observation) the log of expanded nodes; the path
\* is passed by copy ([...path]) and so is not returned
dfsForCycles(current, graph, visited, path, cycles, expanded) ==
    IF current \in visited
    THEN [visited |-> visited, cycles |-> cycles, expanded |-> expanded]
    ELSE LET cycleIndex == indexOf(path, current) IN
         IF cycleIndex # 0
         THEN LET cycle == extractCycle(path, cycleIndex, current) IN
              [visited  |-> visited,
               cycles   |-> IF isCycleRecorded(cycles, cycle)
                            THEN cycles ELSE Append(cycles, cycle),
               expanded |-> expanded]
         ELSE LET r == dfsVisitAll(edgeTargets(graph, current), 1, graph, visited,
                                   Append(path, current), cycles,
                                   Append(expanded, current))
              IN  [visited  |-> markVisited(r.visited, current),
                   cycles   |-> r.cycles,
                   expanded |-> r.expanded]

\* for (const [target, _] of dependencies) this.dfsForCycles(target, ...)
dfsVisitAll(targets, i, graph, visited, path, cycles, expanded) ==
    IF i > Len(targets)
    THEN [visited |-> visited, cycles |-> cycles, expanded |-> expanded]
    ELSE LET r == dfsForCycles(targets[i], graph, visited, path, cycles, expanded)
         IN  dfsVisitAll(targets, i + 1, graph, r.visited, path, r.cycles, r.expanded)

\* the whole function, as an operator (used by the summary reporter)
RECURSIVE findCircularFrom(_, _, _)
findCircularFrom(graph, i, cycles) ==
    IF i > Len(graph.nodes) THEN cycles
    ELSE findCircularFrom(graph, i + 1,
            dfsForCycles(graph.nodes[i], graph, {}, <<>>, cycles, <<>>).cycles)

\* a mutation: no cycle is ever reported
findCircularDependenciesNone(graph) == <<>>

findCircularDependencies(graph) == findCircularFrom(graph, 1, <<>>)

\* an edge as buildDependencyGraph records it between two project files
CycEdge(s, t) == [source |-> s, target |-> t, type |-> "import",
                  lineNumbers |-> {0}, isExternal |-> FALSE]

CycGraphs ==
    {[nodes |-> ks,
      edges |-> [n \in CycNodes |-> [i \in 1..Len(adj[n]) |-> CycEdge(n, adj[n][i])]]] :
        ks \in AllOrders(CycNodes),
        adj \in {a \in [CycNodes -> SetToSeqs(CycNodes)] :
                    Len(a["A"]) + Len(a["B"]) + Len(a["C"]) <= MaxEdges}}

InitCycles ==
    /\ AnalyzerIdle
    /\ ExtIdle
    /\ ReqIdle
    /\ dependencyGraph \in CycGraphs
    /\ circularDependencies = <<>>
    /\ startIdx = 1
    /\ expandedLog = <<>>
    /\ cycPc = "loop"

\* one iteration of: for (const startNode of dependencyGraph.nodes.keys())
FindCircularVisitStart ==
    /\ cycPc = "loop"
    /\ startIdx <= Len(dependencyGraph.nodes)
    /\ LET r == dfsForCycles(dependencyGraph.nodes[startIdx], dependencyGraph,
                             {}, <<>>, circularDependencies, <<>>)
       IN  /\ circularDependencies' = r.cycles
           /\ expandedLog' = Append(expandedLog, r.expanded)
    /\ startIdx' = startIdx + 1
    /\ UNCHANGED <<dependencyGraph, cycPc, anVars, extVars, reqVars>>

\* return circularDependencies
FindCircularReturn ==
    /\ cycPc = "loop"
    /\ startIdx > Len(dependencyGraph.nodes)
    /\ cycPc' = "done"
    /\ UNCHANGED <<dependencyGraph, circularDependencies, startIdx, expandedLog, anVars,
                   extVars, reqVars>>

NextCycles == FindCircularVisitStart \/ FindCircularReturn

SpecCycles == InitCycles /\ [][NextCycles]_vars

-----------------------------------------------------------------------------
(* Properties of the cycle detector                                        *)

\* a cycle without its closing repeat
OpenCycle(c) == SubSeq(c, 1, Len(c) - 1)

\* a and b are the same cyclic sequence started at different positions
IsRotation(a, b) ==
    /\ Len(a) = Len(b)
    /\ \E i \in 0..(Len(a) - 1) :
          \A j \in 0..(Len(a) - 1) : a[j + 1] = b[((i + j) % Len(a)) + 1]

HasEdge(graph, x, y) == y \in Range(edgeTargets(graph, x))

\* c (open form) is a simple cycle of the graph
IsSimpleCycle(graph, c) ==
    /\ Len(c) >= 1
    /\ \A i, j \in 1..Len(c) : i # j => c[i] # c[j]
    /\ \A i \in 1..Len(c) : HasEdge(graph, c[i], c[(i % Len(c)) + 1])

EdgeSet(graph) ==
    {<<n, t>> : n \in DOMAIN graph.edges, t \in CycNodes} \cap
    {e \in CycNodes \X CycNodes : HasEdge(graph, e[1], e[2])}

CycleEdgeSet(c) == {<<c[i], c[(i % Len(c)) + 1]>> : i \in 1..Len(c)}

\* C1: the output never holds two cycles that are rotations of the same loop
C1_NoRotationDuplicates ==
    cycPc = "done" =>
        \A r, s \in 1..Len(circularDependencies) :
            r # s => ~IsRotation(OpenCycle(circularDependencies[r]),
                                 OpenCycle(circularDependencies[s]))

\* C2: a graph whose edges are exactly one simple cycle over n nodes yields
\* exactly one reported cycle, and it contains all n nodes
C2_SingleCycleOnce ==
    cycPc = "done" =>
        \A c \in SetToSeqs(CycNodes) :
            (IsSimpleCycle(dependencyGraph, c) /\ EdgeSet(dependencyGraph) = CycleEdgeSet(c))
            => /\ Len(circularDependencies) = 1
               /\ Range(circularDependencies[1]) = Range(c)

\* C3: every simple cycle of the graph has a rotation in the output
C3_EveryCycleReported ==
    cycPc = "done" =>
        \A c \in SetToSeqs(CycNodes) :
            IsSimpleCycle(dependencyGraph, c) =>
                \E r \in 1..Len(circularDependencies) :
                    IsRotation(OpenCycle(circularDependencies[r]), c)

\* C4: every reported cycle is a closed walk of the graph: at least two
\* elements, first = last, consecutive elements joined by an edge, and the
\* elements before the closing repeat pairwise distinct
C4_ReportedCyclesAreClosedWalks ==
    \A r \in 1..Len(circularDependencies) :
        LET c == circularDependencies[r] IN
        /\ Len(c) >= 2
        /\ c[1] = c[Len(c)]
        /\ \A i \in 1..(Len(c) - 1) : HasEdge(dependencyGraph, c[i], c[i + 1])
        /\ \A i, j \in 1..(Len(c) - 1) : i # j => c[i] # c[j]

\* a run that reported a self-loop, a two-cycle and a three-cycle
C4_Witness ==
    /\ cycPc = "done"
    /\ \E r, s, t \in 1..Len(circularDependencies) :
          /\ Len(circularDependencies[r]) = 2
          /\ Len(circularDependencies[s]) = 3
          /\ Len(circularDependencies[t]) = 4

\* C16: within one top-level start no node is expanded (has its outgoing
\* edges iterated) more than once, so each start expands at most as many
\* nodes as the graph has and the detector finishes
C16_NoNodeExpandedTwice ==
    /\ \A s \in 1..Len(expandedLog) :
          /\ \A i, j \in 1..Len(expandedLog[s]) :
                i # j => expandedLog[s][i] # expandedLog[s][j]
          /\ Len(expandedLog[s]) <= Len(dependencyGraph.nodes)
    /\ Len(expandedLog) <= Len(dependencyGraph.nodes)

\* a finished run on a cyclic graph in which one start expanded all three
\* nodes and met a node again that it had fully processed (C is reached from
\* A and from B, and was processed under B before A tried its own edge)
C16_Witness ==
    /\ cycPc = "done"
    /\ circularDependencies # <<>>
    /\ \E s \in 1..Len(expandedLog) :
          /\ expandedLog[s] = <<"A", "B", "C">>
          /\ edgeTargets(dependencyGraph, "A") = <<"B", "C">>
          /\ HasEdge(dependencyGraph, "B", "C")

\* the number of times cycle c occurs in the output
Occurrences(c) ==
    Cardinality({r \in 1..Len(circularDependencies) : circularDependencies[r] = c})

\* C19: a node with an edge to itself is reported as the cycle [n, n]
\* exactly once, however many other nodes reach it
C19_SelfLoopReportedOnce ==
    cycPc = "done" =>
        \A n \in CycNodes :
            HasEdge(dependencyGraph, n, n) => Occurrences(<<n, n>>) = 1

\* a finished run on a graph where A has a self-loop, both other nodes
\* reach A and A is not the first start node
C19_Witness ==
    /\ cycPc = "done"
    /\ HasEdge(dependencyGraph, "A", "A")
    /\ HasEdge(dependencyGraph, "B", "A")
    /\ HasEdge(dependencyGraph, "C", "A")
    /\ dependencyGraph.nodes[1] # "A"
    /\ Occurrences(<<"A", "A">>) = 1

-----------------------------------------------------------------------------
(* Strings: paths and raw references                                       *)
(*                                                                         *)
(* [root, dir, base, ext] stands for the string root + dir/.../ + base +   *)
(* ext.  root "/" is an absolute path, "./" and "../" a dot-relative       *)
(* reference, "" a bare one, the others a URL scheme and host.             *)

Str(root, dir, base, ext) == [root |-> root, dir |-> dir, base |-> base, ext |-> ext]

AbsPath(dir, base, ext) == Str("/", dir, base, ext)

\* String.prototype.startsWith / includes on a raw reference
startsWithSlash(s) == s.root = "/"
startsWithDot(s)   == s.root \in {"./", "../"}
\* startsWith('http'): a URL of either scheme, or a bare name that begins
\* with the letters http
startsWithHttp(s)  ==
    \/ s.root \in {"http://example.com/", "https://cdn.example.com/"}
    \/ s.root = "" /\ (IF s.dir = <<>> THEN s.base ELSE s.dir[1]) \in {"httpd", "http-api"}
startsWithData(s)  == s.root = "data:"
startsWithHash(s)  == s.root = "#"
includesAt(s)      == s.root = "mailto:user@"

\* DependencyManager.externalPackagePatterns, tested with includes()
includesExternalPattern(s) ==
    \/ "node_modules" \in Range(s.dir)
    \/ s.root = "https://cdn.example.com/"

\* path.extname / path.dirname
extname(p) == p.ext
dirname(p) == p.dir

Front(s) == SubSeq(s, 1, Len(s) - 1)

\* path.resolve(sourceDir, importPath) for a reference that starts neither
\* with "/" nor with a URL scheme
pathResolve(sourceDir, importPath) ==
    AbsPath(CASE importPath.root = "../" -> (IF sourceDir = <<>> THEN <<>> ELSE Front(sourceDir)) \o importPath.dir
              [] importPath.root \in {"./", ""} -> sourceDir \o importPath.dir
              [] OTHER -> sourceDir \o <<importPath.root>> \o importPath.dir,
            importPath.base, importPath.ext)

\* resolvedPath + ext, mutated to put the extension on the wrong path first
withExtension(p, ext) == [p EXCEPT !.ext = ext]

\* path.join(resolvedPath, `index${ext}`)
indexPath(p, ext) == AbsPath(p.dir \o <<p.base>>, "index", ext)

\* path.join(this.workspaceRoot, importPath)
joinWorkspace(root, importPath) ==
    AbsPath(root.dir \o importPath.dir, importPath.base, importPath.ext)

\* fs.existsSync: a file of that name, or a directory holding some file
existsSync(files, p) ==
    \/ p \in files
    \/ /\ p.ext = ""
       /\ \E f \in files :
             /\ Len(f.dir) > Len(p.dir)
             /\ SubSeq(f.dir, 1, Len(p.dir) + 1) = p.dir \o <<p.base>>

\* a mutation: ".ts" is missing from the candidate list
extensionsNoTs == <<".js", ".jsx", ".tsx", ".json", ".css", ".scss", ".html", ".md">>

extensions == <<".js", ".jsx", ".ts", ".tsx", ".json", ".css", ".scss", ".html", ".md">>

\* a mutation: the last candidate that exists is taken
firstExistingLast(files, candidates) ==
    IF \E i \in 1..Len(candidates) : existsSync(files, candidates[i])
    THEN CHOOSE i \in 1..Len(candidates) :
            /\ existsSync(files, candidates[i])
            /\ \A k \in (i + 1)..Len(candidates) : ~existsSync(files, candidates[k])
    ELSE 0

\* the position of the first candidate path that exists, 0 when none does
firstExisting(files, candidates) ==
    IF \E i \in 1..Len(candidates) : existsSync(files, candidates[i])
    THEN CHOOSE i \in 1..Len(candidates) :
            /\ existsSync(files, candidates[i])
            /\ \A k \in 1..(i - 1) : ~existsSync(files, candidates[k])
    ELSE 0

resolveImportPath(root, files, sourcePath, importPath) ==
    IF startsWithSlash(importPath) \/ startsWithHttp(importPath)
    THEN IF startsWithSlash(importPath) /\ root.known
         THEN joinWorkspace(root, importPath)
         ELSE importPath
    ELSE LET resolvedPath == pathResolve(dirname(sourcePath), importPath)
             withExt == [i \in 1..Len(extensions) |-> withExtension(resolvedPath, extensions[i])]
             indexes == [i \in 1..Len(extensions) |-> indexPath(resolvedPath, extensions[i])]
             e == firstExisting(files, withExt)
             x == firstExisting(files, indexes)
         IN  IF extname(resolvedPath) = ""
             THEN IF e # 0 THEN withExt[e]
                  ELSE IF x # 0 THEN indexes[x]
                  ELSE resolvedPath
             ELSE resolvedPath

shouldProcessExternalDependency(s) == FALSE

isExternalDependency(importPath) ==
    IF includesExternalPattern(importPath) THEN TRUE
    ELSE IF startsWithDot(importPath) \/ startsWithSlash(importPath) THEN FALSE
    ELSE TRUE

-----------------------------------------------------------------------------
(* File descriptors                                                        *)

SizeLimit == 1024 * 1024

determineFileType(extension) ==
    CASE extension \in {".js", ".jsx", ".mjs"} -> "javascript"
      [] extension \in {".ts", ".tsx"} -> "typescript"
      [] extension \in {".html", ".htm", ".xhtml"} -> "html"
      [] extension \in {".css", ".scss", ".less"} -> "css"
      [] extension = ".json" -> "json"
      [] extension \in {".md", ".markdown"} -> "markdown"
      [] extension \in {".png", ".jpg", ".jpeg", ".gif", ".svg"} -> "image"
      [] OTHER -> "unknown"

binaryExtensions ==
    {".pdf", ".zip", ".gz", ".tar", ".exe", ".dll", ".so", ".dylib",
     ".jpg", ".jpeg", ".png", ".gif", ".svg", ".ico",
     ".mp3", ".mp4", ".wav", ".avi", ".mkv",
     ".doc", ".docx", ".xls", ".xlsx", ".ppt", ".pptx"}

isBinaryFile(file) ==
    IF file.type = "image" THEN TRUE ELSE file.extension \in binaryExtensions

\* a mutation: the size test is missing
isSkippedNoSize(file) == isBinaryFile(file)

\* file.size > 1024 * 1024 || this.isBinaryFile(file)
isSkipped(file) == file.size > SizeLimit \/ isBinaryFile(file)

\* the optional content of a descriptor; an absent content is undefined
NoContent == [loaded |-> FALSE, lines |-> <<>>]
Loaded(lines) == [loaded |-> TRUE, lines |-> lines]

\* if (file.content): undefined and the empty string are both falsy
hasContent(file) == file.content.loaded /\ file.content.lines # <<>>

FileInfo(p, type, size, content) ==
    [path |-> p, extension |-> extname(p), type |-> type, size |-> size, content |-> content]

-----------------------------------------------------------------------------
(* Dependency extraction                                                   *)
(*                                                                         *)
(* A content is a sequence of lines; a line is [form, ref]: one reference  *)
(* statement of the given syntactic form with its raw reference.  The      *)
(* regular expressions of the source are modelled by the forms they match. *)

Line(form, ref) == [form |-> form, ref |-> ref]

\* [...content.matchAll(regex)]: the matches of one pattern, in text order;
\* a pattern maps each form of line it matches to the form of the snippet
\* it matches there
matchAll(content, pattern) ==
    LET Hit(line) == line.form \in DOMAIN pattern
        hits == SelectSeq(content, Hit)
    IN  [i \in 1..Len(hits) |-> Line(pattern[hits[i].form], hits[i].ref)]

\* lines[i].includes(pattern): the line is the snippet, or holds it
lineIncludes(line, match) ==
    \/ line = match
    \/ line.ref = match.ref /\ line.form = "atimport-url" /\ match.form = "url"
    \/ line.ref = match.ref /\ line.form = "image" /\ match.form = "link"

\* zero-based indices of the lines that include the matched snippet
findLineNumbers(content, match) ==
    {i - 1 : i \in {k \in 1..Len(content) : lineIncludes(content[k], match)}}

Dependency(source, target, type, lineNumbers, isExternal) ==
    [source |-> source, target |-> target, type |-> type,
     lineNumbers |-> lineNumbers, isExternal |-> isExternal]

JsImport == ("import" :> "import")
JsRequire == ("require" :> "require")
JsDynamic == ("dynamic" :> "dynamic")
JsReference == ("reference" :> "reference")

extractJavaScriptDependencies(root, files, filePath, content) ==
    LET matches == matchAll(content, JsImport) \o matchAll(content, JsRequire)
                   \o matchAll(content, JsDynamic)
        Kept(m) == ~(isExternalDependency(m.ref) /\ ~shouldProcessExternalDependency(m.ref))
        Imp(m)  == Dependency(filePath, resolveImportPath(root, files, filePath, m.ref),
                              "import", findLineNumbers(content, m),
                              isExternalDependency(m.ref))
        Ref(m)  == Dependency(filePath, resolveImportPath(root, files, filePath, m.ref),
                              "reference", findLineNumbers(content, m), FALSE)
        kept == SelectSeq(matches, Kept)
        refs == matchAll(content, JsReference)
    IN  [i \in 1..Len(kept) |-> Imp(kept[i])] \o [i \in 1..Len(refs) |-> Ref(refs[i])]

HtmlScript == ("script" :> "script")
HtmlLink == ("link-tag" :> "link-tag")
HtmlImg == ("img" :> "img")

extractHTMLDependencies(root, files, filePath, content) ==
    LET matches == matchAll(content, HtmlScript) \o matchAll(content, HtmlLink)
                   \o matchAll(content, HtmlImg)
        Kept(m) == ~(startsWithData(m.ref)
                     \/ (startsWithHttp(m.ref) /\ ~shouldProcessExternalDependency(m.ref)))
        Dep(m)  == Dependency(filePath, resolveImportPath(root, files, filePath, m.ref),
                              "html-link", findLineNumbers(content, m),
                              isExternalDependency(m.ref))
        kept == SelectSeq(matches, Kept)
    IN  [i \in 1..Len(kept) |-> Dep(kept[i])]

CssImport == ("atimport" :> "atimport") @@ ("atimport-url" :> "atimport-url")
CssUrl == ("url" :> "url") @@ ("atimport-url" :> "url")

extractCSSDependencies(root, files, filePath, content) ==
    LET KeptI(m) == ~((startsWithHttp(m.ref) /\ ~shouldProcessExternalDependency(m.ref))
                      \/ startsWithData(m.ref))
        KeptU(m) == ~(startsWithHttp(m.ref) \/ startsWithData(m.ref) \/ startsWithHash(m.ref))
        Dep(m)   == Dependency(filePath, resolveImportPath(root, files, filePath, m.ref),
                               "style", findLineNumbers(content, m),
                               isExternalDependency(m.ref))
        imports == SelectSeq(matchAll(content, CssImport), KeptI)
        urls == SelectSeq(matchAll(content, CssUrl), KeptU)
    IN  [i \in 1..Len(imports) |-> Dep(imports[i])] \o [i \in 1..Len(urls) |-> Dep(urls[i])]

\* a mutation: the peerDependencies section is not inspected
dependencySectionsNoPeer ==
    <<"dependencies", "devDependencies", "optionalDependencies">>

dependencySections ==
    <<"dependencies", "devDependencies", "peerDependencies", "optionalDependencies">>

\* a mutation: a malformed document is parsed as far as it goes
jsonParseThrowsNever(content) == FALSE

\* JSON.parse throws on a malformed document
jsonParseThrows(content) == \E i \in 1..Len(content) : content[i].form = "syntax-error"

\* Object.entries(packageJson[section])
RECURSIVE sectionEntries(_, _)
sectionEntries(content, i) ==
    IF i > Len(dependencySections) THEN <<>>
    ELSE LET InSection(line) == line.form = dependencySections[i]
         IN  SelectSeq(content, InSection) \o sectionEntries(content, i + 1)

extractJSONDependencies(root, files, filePath, content) ==
    LET Dep(m) == Dependency(filePath, Str("", <<"node_modules">>, m.ref.base, m.ref.ext),
                             "import", {}, TRUE)
    IN  IF ~(filePath.base = "package" /\ filePath.ext = ".json") THEN <<>>
        ELSE IF jsonParseThrows(content) THEN <<>>
        ELSE LET entries == sectionEntries(content, 1)
             IN  [i \in 1..Len(entries) |-> Dep(entries[i])]

MdImage == ("image" :> "image")
MdLink == ("link" :> "link") @@ ("image" :> "link")

extractMarkdownDependencies(root, files, filePath, content) ==
    LET KeptI(m) == ~startsWithHttp(m.ref)
        KeptL(m) == ~(startsWithHttp(m.ref) \/ startsWithHash(m.ref) \/ includesAt(m.ref))
        Dep(m)   == Dependency(filePath, resolveImportPath(root, files, filePath, m.ref),
                               "reference", findLineNumbers(content, m), FALSE)
        images == SelectSeq(matchAll(content, MdImage), KeptI)
        links == SelectSeq(matchAll(content, MdLink), KeptL)
    IN  [i \in 1..Len(images) |-> Dep(images[i])] \o [i \in 1..Len(links) |-> Dep(links[i])]

\* switch (file.type) of analyzeDependencies
extractDependencies(root, files, file, content) ==
    CASE file.type \in {"javascript", "typescript"} ->
            extractJavaScriptDependencies(root, files, file.path, content)
      [] file.type = "html" -> extractHTMLDependencies(root, files, file.path, content)
      [] file.type = "css" -> extractCSSDependencies(root, files, file.path, content)
      [] file.type = "json" -> extractJSONDependencies(root, files, file.path, content)
      [] file.type = "markdown" -> extractMarkdownDependencies(root, files, file.path, content)
      [] OTHER -> <<>>

-----------------------------------------------------------------------------
(* The project on disk and the descriptors handed to the analyzer          *)

\* bound: number of changes made to files on disk during a run
MaxDiskChanges == 2

pA    == AbsPath(<<"p">>, "a", ".ts")
pBts  == AbsPath(<<"p">>, "b", ".ts")
pBjs  == AbsPath(<<"p">>, "b", ".js")
pHtml == AbsPath(<<"p">>, "index", ".html")
pApp  == AbsPath(<<"p">>, "app", ".js")
pLogo == AbsPath(<<"p">>, "logo", ".png")

DiskPaths == {pA, pBts, pBjs, pHtml, pApp, pLogo}

OnDisk(lines) == [exists |-> TRUE, lines |-> lines]
Missing == [exists |-> FALSE, lines |-> <<>>]

textA1 == <<Line("import", Str("./", <<>>, "b", ""))>>
textA2 == <<Line("import", Str("", <<>>, "lodash", "")),
            Line("require", Str("./", <<>>, "app", "")),
            Line("reference", Str("./", <<>>, "b", ".ts"))>>
textH1 == <<Line("script", Str("", <<>>, "app", ".js")),
            Line("img", Str("./", <<>>, "logo", ".png"))>>
textH2 == <<Line("script", Str("/", <<>>, "app", ".js")),
            Line("link-tag", Str("https://cdn.example.com/", <<>>, "site", ".css")),
            Line("img", Str("data:", <<>>, "image", ""))>>
textApp == <<Line("dynamic", Str("./", <<>>, "a", ""))>>

\* the states a file can have on disk
DiskStates(p) ==
    CASE p = pA    -> {OnDisk(textA1), OnDisk(textA2), Missing}
      [] p = pHtml -> {OnDisk(textH1), OnDisk(textH2)}
      [] p = pBjs  -> {OnDisk(<<>>), Missing}
      [] p = pApp  -> {OnDisk(textApp)}
      [] OTHER     -> {OnDisk(<<>>)}

InitialDisk ==
    [p \in DiskPaths |->
        CASE p = pA    -> OnDisk(textA1)
          [] p = pHtml -> OnDisk(textH1)
          [] p = pBjs  -> Missing
          [] p = pApp  -> OnDisk(textApp)
          [] OTHER     -> OnDisk(<<>>)]

existingFiles(d) == {p \in DOMAIN d : d[p].exists}

\* a descriptor as the file catalog builds it (getFileInfo)
CatalogFile(p, size) == FileInfo(p, determineFileType(extname(p)), size, NoContent)

Catalogs ==
    {<<CatalogFile(pHtml, 300), CatalogFile(pApp, 200), CatalogFile(pA, 100),
       CatalogFile(pBts, 0)>>,
     <<CatalogFile(pA, SizeLimit + 1), CatalogFile(pLogo, 5000), CatalogFile(pHtml, 300),
       CatalogFile(pApp, 200)>>,
     <<CatalogFile(pA, SizeLimit), CatalogFile(pBjs, 0), CatalogFile(pBts, 0)>>}

\* descriptors handed to analyzeDependencies by the other callers
\* (getFileDependencies, generateDependencySummary, getFileDetails): the
\* type is the one of the extension or "unknown", the size is the one stat
\* returned, the content may have been loaded beforehand
DirectFiles ==
    {FileInfo(pA, "typescript", SizeLimit, NoContent),
     FileInfo(pA, "typescript", SizeLimit + 1, NoContent),
     FileInfo(pA, "unknown", SizeLimit, NoContent),
     FileInfo(pA, "typescript", SizeLimit, Loaded(<<>>)),
     FileInfo(pA, "typescript", SizeLimit, Loaded(textA2)),
     FileInfo(pLogo, "image", 5000, NoContent)}

DirectCallers == {"d1", "d2"}
Callers == DirectCallers \cup {"build", "summary", "gfd", "rev"}

-----------------------------------------------------------------------------
(* A project of manifests and prose files                                  *)

pPkg    == AbsPath(<<"p">>, "package", ".json")
pCfg    == AbsPath(<<"p">>, "tsconfig", ".json")
pReadme == AbsPath(<<"p">>, "readme", ".md")
pGuide  == AbsPath(<<"p">>, "guide", ".md")
pHttpd  == AbsPath(<<"p">>, "httpd", ".md")
pGone   == AbsPath(<<"p">>, "gone", ".md")

DocPaths == {pPkg, pCfg, pReadme, pGuide, pHttpd, pGone, pLogo}

pkgLodash == Str("", <<>>, "lodash", "")
pkgJest   == Str("", <<>>, "jest", "")

\* a manifest: one line per entry of a top-level section
textPkgGood == <<Line("scripts", Str("", <<>>, "build", "")),
                 Line("devDependencies", pkgJest),
                 Line("dependencies", pkgLodash),
                 Line("peerDependencies", pkgLodash)>>
\* the same manifest cut off in the middle
textPkgBad  == <<Line("dependencies", pkgLodash),
                 Line("syntax-error", Str("", <<>>, "", ""))>>
textCfg     == <<Line("dependencies", pkgLodash)>>

refLogo == Str("./", <<>>, "logo", ".png")

\* [guide](./guide.md) [site](http://example.com/) [install](#install)
\* [mail](mailto:user@example) [httpd](httpd.md), one per line
textReadme1 == <<Line("link", Str("./", <<>>, "guide", ".md")),
                 Line("link", Str("http://example.com/", <<>>, "", "")),
                 Line("link", Str("#", <<>>, "install", "")),
                 Line("link", Str("mailto:user@", <<>>, "example", "")),
                 Line("link", Str("", <<>>, "httpd", ".md"))>>
\* [logo](./logo.png) then ![logo](./logo.png) then a remote badge image
textReadme2 == <<Line("link", refLogo),
                 Line("image", refLogo),
                 Line("image", Str("https://cdn.example.com/", <<>>, "badge", ".svg"))>>
textGuide   == <<Line("link", Str("./", <<>>, "readme", ".md")),
                 Line("image", refLogo)>>

\* the file-system states of the project; /p/gone.md is listed by a catalog
\* made earlier and has been deleted since
DocDisks ==
    {[p \in DocPaths |->
        CASE p = pPkg    -> pkg
          [] p = pReadme -> OnDisk(readme)
          [] p = pGuide  -> guide
          [] p = pCfg    -> OnDisk(textCfg)
          [] p = pGone   -> Missing
          [] OTHER       -> OnDisk(<<>>)] :
        pkg \in {OnDisk(textPkgGood), OnDisk(textPkgBad)},
        readme \in {textReadme1, textReadme2},
        guide \in {OnDisk(textGuide), Missing}}

DocCatalogs ==
    {<<CatalogFile(pPkg, 400), CatalogFile(pReadme, 300), CatalogFile(pGuide, 200),
       CatalogFile(pLogo, 5000), CatalogFile(pGone, 100)>>,
     <<CatalogFile(pGone, 100), CatalogFile(pCfg, 50), CatalogFile(pGuide, 200),
       CatalogFile(pHttpd, 0), CatalogFile(pReadme, 300)>>}

\* descriptors handed to analyzeDependencies by the other callers
DocFiles ==
    {CatalogFile(pPkg, 400), CatalogFile(pCfg, 50), CatalogFile(pReadme, 300),
     CatalogFile(pGone, 100),
     FileInfo(pPkg, "json", 400, Loaded(textPkgBad)),
     FileInfo(pPkg, "json", 400, Loaded(textPkgGood))}

-----------------------------------------------------------------------------
(* analyzeDependencies                                                     *)

\* this.dependencyCache.set(path, dependencies), with its observation
CacheSet(path, dependencies) ==
    /\ dependencyCache' = (path :> dependencies) @@ dependencyCache
    /\ cacheWrites' = (path :> (IF path \in DOMAIN cacheWrites
                                THEN cacheWrites[path] + 1 ELSE 1)) @@ cacheWrites

\* the promise of caller c is fulfilled with result
Return(c, file, result, reads, matched, hit, late) ==
    /\ calls' = [calls EXCEPT ![c] =
                    [pc |-> "returned", file |-> file, result |-> result,
                     reads |-> reads, matched |-> matched, hit |-> hit, late |-> late]]
    /\ firstResult' = IF file.path \in DOMAIN firstResult THEN firstResult
                      ELSE (file.path :> result) @@ firstResult

\* analyzeDependencies from its entry to its first await (or its return)
AnalyzeBegin(c, file) ==
    LET late == file.path \in DOMAIN firstResult IN
    IF file.path \in DOMAIN dependencyCache
    THEN /\ Return(c, file, dependencyCache[file.path], 0, FALSE, TRUE, late)
         /\ UNCHANGED <<dependencyCache, cacheWrites>>
    ELSE IF isSkipped(file)
    THEN /\ CacheSet(file.path, <<>>)
         /\ Return(c, file, <<>>, 0, FALSE, FALSE, late)
    ELSE IF hasContent(file)
    THEN LET dependencies == extractDependencies(workspaceRoot, existingFiles(disk),
                                                 file, file.content.lines)
         IN  /\ CacheSet(file.path, dependencies)
             /\ Return(c, file, dependencies, 0, TRUE, FALSE, late)
    ELSE /\ calls' = [calls EXCEPT ![c] =
                        [pc |-> "reading", file |-> file, result |-> <<>>, reads |-> 0,
                         matched |-> FALSE, hit |-> FALSE, late |-> late]]
         /\ UNCHANGED <<dependencyCache, cacheWrites, firstResult>>

\* analyzeDependencies from the completion of readFile to its return
AnalyzeFinish(c) ==
    LET file == calls[c].file IN
    IF disk[file.path].exists
    THEN LET dependencies == extractDependencies(workspaceRoot, existingFiles(disk),
                                                 file, disk[file.path].lines)
         IN  /\ CacheSet(file.path, dependencies)
             /\ Return(c, file, dependencies, 1, TRUE, FALSE, calls[c].late)
    ELSE /\ CacheSet(file.path, <<>>)
         /\ Return(c, file, <<>>, 1, FALSE, FALSE, calls[c].late)

\* a caller other than buildDependencyGraph calls analyzeDependencies(file)
CallAnalyze(c, file) ==
    /\ calls[c].pc \in {"idle", "returned"}
    /\ AnalyzeBegin(c, file)
    /\ UNCHANGED <<workspaceRoot, disk, diskChanges, build, cycVars, extVars, reqVars>>

\* readFile of caller c completes (with the content, or with an error); a
\* summary whose analysis has returned goes on first (promise reactions
\* precede the next file-system event)
ReadFileDone(c) ==
    /\ calls[c].pc = "reading"
    /\ ~(summary.pc = "analyzing" /\ calls["summary"].pc = "returned")
    /\ AnalyzeFinish(c)
    /\ UNCHANGED <<workspaceRoot, disk, diskChanges, build, cycVars, extVars, reqVars>>

\* a file of the project is edited, created or deleted
DiskChange(p, st) ==
    /\ diskChanges < MaxDiskChanges
    /\ st # disk[p]
    /\ disk' = [disk EXCEPT ![p] = st]
    /\ diskChanges' = diskChanges + 1
    /\ UNCHANGED <<workspaceRoot, dependencyCache, calls, build, cacheWrites,
                   firstResult, cycVars, extVars, reqVars>>

-----------------------------------------------------------------------------
(* buildDependencyGraph                                                    *)

\* graph.nodes.has(dep.target), a mutation of it first
nodesHasAlways(graph, target) == TRUE

nodesHas(graph, target) == target \in Range(graph.nodes)

\* a mutation of Map.prototype.set: an existing key keeps its first value
mapSetKeepFirst(edgeMap, dep) ==
    IF \E k \in 1..Len(edgeMap) : edgeMap[k].target = dep.target
    THEN edgeMap
    ELSE Append(edgeMap, dep)

\* Map.prototype.set on the edge map of one file: a new key goes last, an
\* existing key keeps its place and takes the new value
mapSet(edgeMap, dep) ==
    IF \E k \in 1..Len(edgeMap) : edgeMap[k].target = dep.target
    THEN [k \in 1..Len(edgeMap) |->
            IF edgeMap[k].target = dep.target THEN dep ELSE edgeMap[k]]
    ELSE Append(edgeMap, dep)

\* for (const dep of dependencies) if (graph.nodes.has(dep.target)) ...
RECURSIVE addDependencies(_, _, _, _)
addDependencies(graph, path, dependencies, k) ==
    IF k > Len(dependencies) THEN graph
    ELSE addDependencies(
            IF nodesHas(graph, dependencies[k].target) /\ path \in DOMAIN graph.edges
            THEN [graph EXCEPT !.edges[path] = mapSet(graph.edges[path], dependencies[k])]
            ELSE graph,
            path, dependencies, k + 1)

\* the two Maps after the first loop over projectStructure.allFiles
initialGraph(catalog) ==
    [nodes |-> [k \in 1..Len(catalog) |-> catalog[k].path],
     edges |-> [p \in {catalog[k].path : k \in 1..Len(catalog)} |-> <<>>]]

\* buildDependencyGraph from its entry to the first await
BuildStart(catalog) ==
    /\ build.pc = "idle"
    /\ build' = [pc |-> "awaiting", catalog |-> catalog, i |-> 1,
                 graph |-> initialGraph(catalog), results |-> <<>>, progress |-> <<>>]
    /\ AnalyzeBegin("build", catalog[1])
    /\ UNCHANGED <<workspaceRoot, disk, diskChanges, cycVars, extVars, reqVars>>

\* buildDependencyGraph resumes with the dependencies of file i, records its
\* edges and goes on to the next await, or returns the graph
BuildResume ==
    /\ build.pc = "awaiting"
    /\ calls["build"].pc = "returned"
    /\ LET file == build.catalog[build.i]
           graph == addDependencies(build.graph, file.path, calls["build"].result, 1)
           results == Append(build.results, calls["build"].result)
           progress == Append(build.progress,
                              [num |-> build.i, den |-> Len(build.catalog)])
       IN  IF build.i < Len(build.catalog)
           THEN /\ build' = [build EXCEPT !.i = build.i + 1, !.graph = graph,
                                          !.results = results, !.progress = progress]
                /\ AnalyzeBegin("build", build.catalog[build.i + 1])
           ELSE /\ build' = [build EXCEPT !.pc = "done", !.graph = graph,
                                          !.results = results, !.progress = progress]
                /\ calls' = [calls EXCEPT !["build"] = IdleCall]
                /\ UNCHANGED <<dependencyCache, cacheWrites, firstResult>>
    /\ UNCHANGED <<workspaceRoot, disk, diskChanges, cycVars, extVars, reqVars>>

-----------------------------------------------------------------------------
(* generateDependencySummary                                               *)

\* determineFileTypeFromPath: the category of path.extname(filePath)
determineFileTypeFromPath(filePath) == determineFileType(extname(filePath))

\* the string of an extension read as a path: a name that begins with its
\* only dot has no extension (path.extname('.ts') is '')
extensionAsPath(extension) == Str("", <<>>, extension, "")

\* fileStats.size
statSize(st) == 100 + Len(st.lines)

\* path.relative(this.workspaceRoot, target) for a target below the root
pathRelative(root, target) ==
    IF /\ root.known
       /\ target.root = "/"
       /\ Len(target.dir) >= Len(root.dir)
       /\ SubSeq(target.dir, 1, Len(root.dir)) = root.dir
    THEN Str("", SubSeq(target.dir, Len(root.dir) + 1, Len(target.dir)),
             target.base, target.ext)
    ELSE target

\* the keys of dependenciesByType, in insertion order
RECURSIVE typesInOrder(_, _, _)
typesInOrder(dependencies, k, types) ==
    IF k > Len(dependencies) THEN types
    ELSE typesInOrder(dependencies, k + 1,
            IF dependencies[k].type \in Range(types) THEN types
            ELSE Append(types, dependencies[k].type))

\* the blocks of the summary text: per type the internal targets
\* (relativized) and the external ones, each with its 1-based line numbers
renderSummary(root, dependencies) ==
    LET types == typesInOrder(dependencies, 1, <<>>)
        Block(type) ==
            LET OfType(d) == d.type = type
                Internal(d) == ~d.isExternal
                External(d) == d.isExternal
                deps == SelectSeq(dependencies, OfType)
                internal == SelectSeq(deps, Internal)
                external == SelectSeq(deps, External)
            IN  [type |-> type, count |-> Len(deps),
                 internal |-> [i \in 1..Len(internal) |->
                                  [target |-> pathRelative(root, internal[i].target),
                                   lines |-> {n + 1 : n \in internal[i].lineNumbers}]],
                 external |-> [i \in 1..Len(external) |->
                                  [target |-> external[i].target,
                                   lines |-> {n + 1 : n \in external[i].lineNumbers}]]]
    IN  [t \in 1..Len(types) |-> Block(types[t])]

\* the FileInfo that generateDependencySummary builds from the stat result
summaryFileInfo(d, p) ==
    FileInfo(p, determineFileTypeFromPath(extensionAsPath(extname(p))),
             statSize(d[p]), NoContent)

\* generateDependencySummary(p) from its entry to the await of fs.stat
SummaryStart(p) ==
    /\ summary.pc = "idle"
    /\ summary' = [summary EXCEPT !.pc = "stat", !.path = p]
    /\ UNCHANGED <<anVars, cycVars, tree, scan, filter, reqVars>>

\* fs.stat settles: the call rejects, or goes on to analyzeDependencies
SummaryStatDone ==
    /\ summary.pc = "stat"
    /\ IF disk[summary.path].exists
       THEN /\ summary' = [summary EXCEPT !.pc = "analyzing"]
            /\ AnalyzeBegin("summary", summaryFileInfo(disk, summary.path))
       ELSE /\ summary' = [summary EXCEPT !.pc = "rejected"]
            /\ UNCHANGED <<dependencyCache, calls, cacheWrites, firstResult>>
    /\ UNCHANGED <<workspaceRoot, disk, diskChanges, build, cycVars, tree, scan, filter, reqVars>>

\* the dependencies arrive: the text is rendered, the one-file graph is built
\* (its analyzeDependencies is answered from the cache, which holds the path
\* since the first analysis returned) and searched for cycles
SummaryRender ==
    /\ summary.pc = "analyzing"
    /\ calls["summary"].pc = "returned"
    /\ LET fileInfo == calls["summary"].file
           dependencies == calls["summary"].result
           cached == IF fileInfo.path \in DOMAIN dependencyCache
                     THEN dependencyCache[fileInfo.path] ELSE dependencies
           graph == addDependencies(initialGraph(<<fileInfo>>), fileInfo.path, cached, 1)
       IN  summary' = [summary EXCEPT
                          !.pc = "done",
                          !.listed = renderSummary(workspaceRoot, dependencies),
                          !.circular = findCircularDependencies(graph),
                          !.beforeBuild = (build.pc = "idle")]
    /\ UNCHANGED <<anVars, cycVars, tree, scan, filter, reqVars>>

-----------------------------------------------------------------------------
(* The analyzer with its callers                                           *)

CycIdle ==
    /\ dependencyGraph = EmptyGraph
    /\ circularDependencies = <<>>
    /\ startIdx = 0
    /\ expandedLog = <<>>
    /\ cycPc = "idle"

InitAnalyzer ==
    /\ CycIdle
    /\ ExtIdle
    /\ ReqIdle
    /\ disk = InitialDisk
    /\ diskChanges = 0
    /\ dependencyCache = EmptyMap
    /\ calls = [c \in Callers |-> IdleCall]
    /\ build = IdleBuild
    /\ cacheWrites = EmptyMap
    /\ firstResult = EmptyMap

Init ==
    /\ InitAnalyzer
    /\ workspaceRoot = [known |-> TRUE, dir |-> <<"p">>]

\* callers of analyzeDependencies overlapping on one analyzer
Next ==
    \/ \E c \in DirectCallers, file \in DirectFiles : CallAnalyze(c, file)
    \/ \E c \in DirectCallers : ReadFileDone(c)
    \/ \E p \in {pA, pBjs} : \E st \in DiskStates(p) : DiskChange(p, st)

Spec == Init /\ [][Next]_vars

InitBuild ==
    /\ InitAnalyzer
    /\ workspaceRoot \in {[known |-> FALSE, dir |-> <<>>], [known |-> TRUE, dir |-> <<"p">>]}

\* buildDependencyGraph running while the project changes on disk
NextBuild ==
    \/ \E catalog \in Catalogs : BuildStart(catalog)
    \/ BuildResume
    \/ \E file \in DirectFiles : CallAnalyze("d1", file)
    \/ \E c \in {"build", "d1"} : ReadFileDone(c)
    \/ \E p \in DiskPaths : \E st \in DiskStates(p) : DiskChange(p, st)

SpecBuild == InitBuild /\ [][NextBuild]_vars

-----------------------------------------------------------------------------
(* Properties of buildDependencyGraph                                      *)

AllEdges(graph) ==
    UNION {{<<s, graph.edges[s][k]>> : k \in 1..Len(graph.edges[s])} : s \in DOMAIN graph.edges}

\* C5: in the graph buildDependencyGraph returns, edges has exactly the
\* keys of nodes, and every recorded edge edges[s][t] = d joins two nodes
\* and carries d.source = s and d.target = t (one edge per key t)
C5_GraphIsWellFormed ==
    build.pc = "done" =>
        LET graph == build.graph IN
        /\ DOMAIN graph.edges = Range(graph.nodes)
        /\ Range(graph.nodes) = {build.catalog[k].path : k \in 1..Len(build.catalog)}
        /\ \A e \in AllEdges(graph) :
              /\ e[1] \in Range(graph.nodes)
              /\ e[2].target \in Range(graph.nodes)
              /\ e[2].source = e[1]
        /\ \A s \in DOMAIN graph.edges :
              \A k, l \in 1..Len(graph.edges[s]) :
                  k # l => graph.edges[s][k].target # graph.edges[s][l].target

\* a finished build that recorded edges of two files and dropped a
\* dependency whose target is not a catalog file
C5_Witness ==
    /\ build.pc = "done"
    /\ Cardinality({e[1] : e \in AllEdges(build.graph)}) >= 2
    /\ \E p \in DOMAIN dependencyCache :
          /\ p \in Range(build.graph.nodes)
          /\ \E k \in 1..Len(dependencyCache[p]) :
                dependencyCache[p][k].target \notin Range(build.graph.nodes)

\* C9: no dependency marked external is recorded as an edge of the graph
C9_NoExternalEdge ==
    build.pc = "done" =>
        \A e \in AllEdges(build.graph) :
            /\ e[2].target \in Range(build.graph.nodes)
            /\ e[2].isExternal = FALSE

-----------------------------------------------------------------------------
(* Properties of analyzeDependencies and its cache                         *)

Returned(c) == calls[c].pc = "returned"

\* C6: whatever the interleaving of calls, the cache entry of a path is
\* written once and never overwritten, and all calls for the path return
\* the same list
C6_CacheWrittenOncePerPath ==
    /\ \A p \in DOMAIN cacheWrites : cacheWrites[p] <= 1
    /\ \A c \in DOMAIN calls :
          Returned(c) => calls[c].result = firstResult[calls[c].file.path]

\* C7: a call that begins after a call for the same path has completed
\* returns the result of the first completed call, reads no file and matches
\* no pattern
C7_LaterCallsReturnFirstResult ==
    \A c \in DOMAIN calls :
        (Returned(c) /\ calls[c].late) =>
            /\ calls[c].result = firstResult[calls[c].file.path]
            /\ calls[c].reads = 0
            /\ ~calls[c].matched

\* the descriptors of C8: larger than 1 MiB, or binary
AboveThreshold(file) ==
    \/ file.size > 1048576
    \/ file.type = "image"
    \/ file.extension \in binaryExtensions

\* C8 as stated: such a descriptor always yields the empty list, unread
C8_SkippedFilesYieldNothing ==
    \A c \in DOMAIN calls :
        AboveThreshold(calls[c].file) =>
            /\ calls[c].pc # "reading"
            /\ Returned(c) => (calls[c].result = <<>> /\ calls[c].reads = 0)

\* C8 as amended: such a descriptor is never read and never matched, and
\* yields the empty list unless the cache already held a list for its path
C8_SkippedFilesAreNotRead ==
    \A c \in DOMAIN calls :
        AboveThreshold(calls[c].file) =>
            /\ calls[c].pc # "reading"
            /\ Returned(c) =>
                  /\ calls[c].reads = 0
                  /\ ~calls[c].matched
                  /\ ~calls[c].hit => calls[c].result = <<>>

\* an oversized descriptor answered from the cache with a non-empty list,
\* beside a binary file analysed for the first time
C8_Witness ==
    \E c, d \in DOMAIN calls :
        /\ Returned(c) /\ calls[c].file.size > 1048576
        /\ calls[c].hit /\ calls[c].result # <<>>
        /\ Returned(d) /\ calls[d].file.type = "image"
        /\ ~calls[d].hit /\ calls[d].result = <<>>

\* C24: a call whose descriptor came with content (the empty string
\* included) never reads the file: it is not waiting for readFile and has
\* read nothing
C24_SuppliedContentIsNotRead ==
    \A c \in DirectCallers :
        calls[c].file.content.loaded =>
            /\ calls[c].pc # "reading"
            /\ calls[c].reads = 0

-----------------------------------------------------------------------------
(* Resolution of an extension-less relative import                         *)

pB       == AbsPath(<<"p">>, "b", "")
pBjsx    == AbsPath(<<"p">>, "b", ".jsx")
pBmd     == AbsPath(<<"p">>, "b", ".md")
pBindexJ == AbsPath(<<"p", "b">>, "index", ".js")
pBindexT == AbsPath(<<"p", "b">>, "index", ".ts")
pUtil    == AbsPath(<<"p", "lib">>, "util", "")
pUtilTs  == AbsPath(<<"p", "lib">>, "util", ".ts")

\* the files that may or may not exist beside /p/a.ts
ResolveCandidates == {pB, pBjs, pBjsx, pBts, pBmd, pBindexJ, pBindexT, pUtilTs}

importB == Str("./", <<>>, "b", "")
importBts == Str("./", <<>>, "b", ".ts")
importUtil == Str("/", <<"lib">>, "util", "")

\* /p/a.ts holding a single import: of './b' in one of its three forms, of
\* './b.ts', or of the workspace-rooted '/lib/util'
ResolveTexts ==
    {<<Line(form, importB)>> : form \in {"import", "require", "dynamic"}}
    \cup {<<Line("import", importBts)>>, <<Line("import", importUtil)>>}

\* a file and a directory cannot have the same name
ResolveDisks ==
    {[p \in ResolveCandidates \cup {pA} |->
        IF p = pA THEN OnDisk(text) ELSE IF p \in present THEN OnDisk(<<>>) ELSE Missing] :
        text \in ResolveTexts,
        present \in {S \in SUBSET ResolveCandidates :
                        ~(pB \in S /\ (pBindexJ \in S \/ pBindexT \in S))}}

\* descriptors of /p/a.ts: read from disk, loaded beforehand, or oversized
ResolveFiles ==
    {FileInfo(pA, "typescript", 100, NoContent),
     FileInfo(pA, "typescript", SizeLimit + 1, NoContent)}
    \cup {FileInfo(pA, "typescript", 100, Loaded(text)) : text \in ResolveTexts}

InitResolve ==
    /\ CycIdle
    /\ ExtIdle
    /\ ReqIdle
    /\ workspaceRoot \in {[known |-> FALSE, dir |-> <<>>], [known |-> TRUE, dir |-> <<"p">>]}
    /\ disk \in ResolveDisks
    /\ diskChanges = 0
    /\ dependencyCache = EmptyMap
    /\ calls = [c \in Callers |-> IdleCall]
    /\ build = IdleBuild
    /\ cacheWrites = EmptyMap
    /\ firstResult = EmptyMap

\* analyzeDependencies applied to /p/a.ts on an unchanging disk
NextResolve ==
    \/ \E file \in ResolveFiles : CallAnalyze("d1", file)
    \/ ReadFileDone("d1")

SpecResolve == InitResolve /\ [][NextResolve]_vars

\* the content a call analysed, the disk being unchanged since: the content
\* of the descriptor when it carries one, the content read otherwise
AnalysedContent(c) ==
    IF calls[c].file.content.loaded /\ calls[c].file.content.lines # <<>>
    THEN calls[c].file.content.lines
    ELSE disk[calls[c].file.path].lines

\* a first analysis (no cache entry) of a script descriptor of /p/a.ts that
\* is not skipped has returned, the content being one statement with
\* reference ref
AnalysedScriptWith(c, ref) ==
    /\ Returned(c)
    /\ calls[c].file.path = pA
    /\ calls[c].file.type \in {"javascript", "typescript"}
    /\ calls[c].file.size <= 1048576
    /\ ~calls[c].hit
    /\ Len(AnalysedContent(c)) = 1
    /\ AnalysedContent(c)[1].ref = ref

AnalysedScriptA(c) == AnalysedScriptWith(c, importB)

OneImportOfBts(result) ==
    /\ Len(result) = 1
    /\ result[1].type = "import"
    /\ result[1].isExternal = FALSE
    /\ result[1].target = pBts
    /\ result[1].source = pA

Exists(p) == existsSync(existingFiles(disk), p)

\* C10 as stated: whenever /p/b.ts exists and /p/b does not, the single
\* import of './b' in /p/a.ts yields one internal import of /p/b.ts
C10_ImportResolvesToTs ==
    \A c \in DOMAIN calls :
        (AnalysedScriptA(c) /\ Exists(pBts) /\ ~Exists(pB))
            => OneImportOfBts(calls[c].result)

\* C10 as amended: the same, when also neither /p/b.js nor /p/b.jsx exists
C10_ImportResolvesToTsUnlessJs ==
    \A c \in DOMAIN calls :
        (AnalysedScriptA(c) /\ Exists(pBts) /\ ~Exists(pB)
            /\ ~Exists(pBjs) /\ ~Exists(pBjsx))
            => OneImportOfBts(calls[c].result)

\* /p/a.ts was read from disk and its import resolved to /p/b.ts although a
\* later candidate (/p/b.md) exists too
C10_Witness ==
    \E c \in DOMAIN calls :
        /\ AnalysedScriptA(c) /\ calls[c].reads = 1
        /\ Exists(pBts) /\ Exists(pBmd) /\ ~Exists(pB) /\ ~Exists(pBjs) /\ ~Exists(pBjsx)
        /\ OneImportOfBts(calls[c].result)

\* the candidate extensions, in the order C17 lists them
C17Extensions == <<".js", ".jsx", ".ts", ".tsx", ".json", ".css", ".scss", ".html", ".md">>

\* the first path of the sequence that exists, none when there is none
FirstThatExists(candidates, none) ==
    IF \E i \in 1..Len(candidates) : Exists(candidates[i])
    THEN candidates[CHOOSE i \in 1..Len(candidates) :
                        /\ Exists(candidates[i])
                        /\ \A k \in 1..(i - 1) : ~Exists(candidates[k])]
    ELSE none

\* what C17 says a relative reference, resolved to path P, resolves to
C17Expected(P) ==
    IF P.ext # "" THEN P
    ELSE FirstThatExists(
            [i \in 1..Len(C17Extensions) |-> [P EXCEPT !.ext = C17Extensions[i]]],
            FirstThatExists(
                [i \in 1..Len(C17Extensions) |->
                    AbsPath(P.dir \o <<P.base>>, "index", C17Extensions[i])],
                P))

\* C17: an extension-less relative reference resolves to the first existing
\* P+e, else to the first existing P/index+e, else to P unchanged; a
\* reference with an extension resolves to P without any existence check
C17_ExtensionThenIndexThenUnchanged ==
    \A c \in DOMAIN calls :
        /\ AnalysedScriptWith(c, importB) =>
              (Len(calls[c].result) = 1 /\ calls[c].result[1].target = C17Expected(pB))
        /\ AnalysedScriptWith(c, importBts) =>
              (Len(calls[c].result) = 1 /\ calls[c].result[1].target = pBts)

\* './b' resolved to /p/b.ts although the directory /p/b with an index file
\* exists too (a direct candidate wins over an index candidate)
C17_Witness ==
    \E c \in DOMAIN calls :
        /\ AnalysedScriptWith(c, importB)
        /\ Exists(pBts) /\ Exists(pBindexJ) /\ ~Exists(pBjs) /\ ~Exists(pBjsx)
        /\ calls[c].result[1].target = pBts

\* C18: with a known workspace root /p, the reference '/lib/util' resolves
\* to /p/lib/util.ts when that file exists and /p/lib/util does not
C18_WorkspaceRootedInference ==
    \A c \in DOMAIN calls :
        (AnalysedScriptWith(c, importUtil) /\ workspaceRoot.known
            /\ Exists(pUtilTs) /\ ~Exists(pUtil))
            => (Len(calls[c].result) = 1 /\ calls[c].result[1].target = pUtilTs)

-----------------------------------------------------------------------------
(* Manifests and prose files: analysis and graph building                  *)

InitDocs ==
    /\ CycIdle
    /\ ExtIdle
    /\ ReqIdle
    /\ workspaceRoot = [known |-> TRUE, dir |-> <<"p">>]
    /\ disk \in DocDisks
    /\ diskChanges = 0
    /\ dependencyCache = EmptyMap
    /\ calls = [c \in Callers |-> IdleCall]
    /\ build = IdleBuild
    /\ cacheWrites = EmptyMap
    /\ firstResult = EmptyMap

\* buildDependencyGraph over a catalog of manifests and prose files, beside
\* another caller of analyzeDependencies, on an unchanging disk
NextDocs ==
    \/ \E catalog \in DocCatalogs : BuildStart(catalog)
    \/ BuildResume
    \/ \E file \in DocFiles : CallAnalyze("d1", file)
    \/ \E c \in {"build", "d1"} : ReadFileDone(c)

SpecDocs == InitDocs /\ [][NextDocs]_vars

\* the call computed its result itself (no cache entry, not skipped)
Computed(c) ==
    /\ Returned(c)
    /\ ~calls[c].hit
    /\ calls[c].file.size <= 1048576
    /\ calls[c].file.type # "image"

\* the call had to read the file and the file could not be read
ReadFailed(c) ==
    /\ ~(calls[c].file.content.loaded /\ calls[c].file.content.lines # <<>>)
    /\ ~disk[calls[c].file.path].exists

\* the document is not well-formed JSON
Malformed(content) == \E i \in 1..Len(content) : content[i].form = "syntax-error"

\* every dependency of the list whose target is a node has an edge in edges[s]
EdgesRecorded(graph, s, dependencies) ==
    \A j \in 1..Len(dependencies) :
        dependencies[j].target \in Range(graph.nodes) =>
            \E e \in 1..Len(graph.edges[s]) :
                graph.edges[s][e].target = dependencies[j].target

\* C11: a file that cannot be read and a malformed manifest yield an empty
\* list from analyzeDependencies; a graph build over a catalog holding such
\* files is never stuck, and when done has a node for every descriptor and
\* an edge for every dependency, between nodes, of every file
C11_LocalFailuresYieldEmptyList ==
    /\ \A c \in DOMAIN calls :
          Computed(c) =>
              /\ ReadFailed(c) => calls[c].result = <<>>
              /\ (calls[c].file.type = "json" /\ Malformed(AnalysedContent(c)))
                    => calls[c].result = <<>>
    /\ build.pc = "awaiting" => calls["build"].pc \in {"reading", "returned"}
    /\ build.pc = "done" =>
          /\ Len(build.graph.nodes) = Len(build.catalog)
          /\ \A k \in 1..Len(build.catalog) :
                /\ build.graph.nodes[k] = build.catalog[k].path
                /\ EdgesRecorded(build.graph, build.catalog[k].path, build.results[k])

\* a finished build over a catalog holding a deleted file and a malformed
\* manifest (both analysed by the build itself), with an edge readme -> guide
C11_Witness ==
    /\ build.pc = "done"
    /\ calls["d1"].pc = "idle"
    /\ disk[pPkg] = OnDisk(textPkgBad)
    /\ \E k, l \in 1..Len(build.catalog) :
          /\ build.catalog[k].path = pPkg /\ build.results[k] = <<>>
          /\ build.catalog[l].path = pGone /\ build.results[l] = <<>>
    /\ \E e \in 1..Len(build.graph.edges[pReadme]) :
          build.graph.edges[pReadme][e].target = pGuide

\* the sections of a manifest that C12 names
C12Sections == {"dependencies", "devDependencies", "peerDependencies", "optionalDependencies"}

\* node_modules/<package-name>
NodeModules(pkg) == Str("", <<"node_modules">>, pkg.base, pkg.ext)

\* C12: a well-formed package.json yields exactly one external import of
\* node_modules/<package> per (section, package) entry of the four sections
\* and nothing else; another JSON file yields nothing
C12_OneImportPerManifestEntry ==
    \A c \in DOMAIN calls :
        (Computed(c) /\ ~ReadFailed(c) /\ calls[c].file.type = "json") =>
            LET content == AnalysedContent(c)
                result == calls[c].result
                entries == {i \in 1..Len(content) : content[i].form \in C12Sections}
            IN  /\ (calls[c].file.path = pPkg /\ ~Malformed(content)) =>
                      /\ Len(result) = Cardinality(entries)
                      /\ \A j \in 1..Len(result) :
                            /\ result[j].type = "import"
                            /\ result[j].isExternal = TRUE
                            /\ result[j].source = pPkg
                            /\ \E i \in entries : result[j].target = NodeModules(content[i].ref)
                      /\ \A i \in entries :
                            Cardinality({j \in 1..Len(result) :
                                            result[j].target = NodeModules(content[i].ref)})
                            = Cardinality({k \in entries : content[k].ref = content[i].ref})
                /\ calls[c].file.path = pCfg => result = <<>>

\* package.json was read from disk and gave three imports: lodash twice
\* (dependencies and peerDependencies) and jest once
C12_Witness ==
    \E c \in DOMAIN calls :
        /\ Computed(c) /\ calls[c].reads = 1
        /\ calls[c].file.path = pPkg
        /\ AnalysedContent(c) = textPkgGood
        /\ Len(calls[c].result) = 3
        /\ Cardinality({j \in 1..3 : calls[c].result[j].target = NodeModules(pkgLodash)}) = 2

\* the positions of the list whose dependency has target t
PositionsOf(dependencies, t) == {j \in 1..Len(dependencies) : dependencies[j].target = t}

Max(S) == CHOOSE x \in S : \A y \in S : y <= x

\* C13: for every file s and node t, edges[s] holds at most one edge to t,
\* and it is the last Dependency with target t of the list that
\* analyzeDependencies(s) returned
C13_LastDependencyWins ==
    build.pc = "done" =>
        \A k \in 1..Len(build.catalog) :
            LET s == build.catalog[k].path
                dependencies == build.results[k]
                edgeMap == build.graph.edges[s]
            IN  \A t \in Range(build.graph.nodes) :
                    LET at == PositionsOf(edgeMap, t) IN
                    IF PositionsOf(dependencies, t) = {}
                    THEN at = {}
                    ELSE /\ Cardinality(at) = 1
                         /\ \A e \in at :
                               edgeMap[e] = dependencies[Max(PositionsOf(dependencies, t))]

\* readme.md references logo.png three times, the first Dependency differing
\* from the last, and the graph holds the last one
C13_Witness ==
    /\ build.pc = "done"
    /\ \E k \in 1..Len(build.catalog) :
          /\ build.catalog[k].path = pReadme
          /\ Cardinality(PositionsOf(build.results[k], pLogo)) = 3
          /\ build.results[k][1] # build.results[k][3]
          /\ build.graph.edges[pReadme] = <<build.results[k][3]>>

\* the three kinds of link target that C14 exempts
IsAbsoluteHttpUrl(ref) == ref.root \in {"http://example.com/", "https://cdn.example.com/"}
IsAnchorOnly(ref) == ref.root = "#"
ContainsAt(ref) == ref.root = "mailto:user@"

\* the result holds an internal reference attributed to line k of the content
YieldsReference(c, k) ==
    \E j \in 1..Len(calls[c].result) :
        /\ calls[c].result[j].type = "reference"
        /\ calls[c].result[j].isExternal = FALSE
        /\ (k - 1) \in calls[c].result[j].lineNumbers

\* C14: in a prose file a link [text](path) yields a Dependency exactly when
\* path is no absolute HTTP(S) URL, is not anchor-only and contains no '@'
C14_LinkYieldsReferenceUnlessExempt ==
    \A c \in DOMAIN calls :
        (Computed(c) /\ ~ReadFailed(c) /\ calls[c].file.type = "markdown") =>
            LET content == AnalysedContent(c) IN
            \A k \in 1..Len(content) :
                content[k].form = "link" =>
                    (YieldsReference(c, k) <=>
                        ~(IsAbsoluteHttpUrl(content[k].ref) \/ IsAnchorOnly(content[k].ref)
                          \/ ContainsAt(content[k].ref)))

-----------------------------------------------------------------------------
(* The summary reporter beside the graph builder                           *)

\* /p/app.js importing itself
textSelf == <<Line("import", Str("./", <<>>, "app", ""))>>

SummaryDisks ==
    {[InitialDisk EXCEPT ![pA] = a, ![pApp] = app] :
        a \in {OnDisk(textA1), OnDisk(textA2), Missing},
        app \in {OnDisk(textApp), OnDisk(textSelf)}}

\* the catalog a scan of the disk gives for the listed paths
scannedCatalog(d, paths) ==
    LET Present(p) == d[p].exists
        present == SelectSeq(paths, Present)
    IN  [k \in 1..Len(present) |-> CatalogFile(present[k], statSize(d[present[k]]))]

SummaryCatalogPaths == {<<pApp, pA, pBts>>, <<pA, pHtml, pApp, pLogo>>}

InitSummary ==
    /\ CycIdle
    /\ ExtIdle
    /\ ReqIdle
    /\ workspaceRoot = [known |-> TRUE, dir |-> <<"p">>]
    /\ disk \in SummaryDisks
    /\ diskChanges = 0
    /\ dependencyCache = EmptyMap
    /\ calls = [c \in Callers |-> IdleCall]
    /\ build = IdleBuild
    /\ cacheWrites = EmptyMap
    /\ firstResult = EmptyMap

\* one summary and one graph build on one analyzer, in any order
NextSummary ==
    \/ \E p \in {pA, pApp} : SummaryStart(p)
    \/ SummaryStatDone
    \/ SummaryRender
    \/ \E paths \in SummaryCatalogPaths : BuildStart(scannedCatalog(disk, paths))
    \/ BuildResume
    \/ \E c \in {"summary", "build"} : ReadFileDone(c)

SpecSummary == InitSummary /\ [][NextSummary]_vars

\* the edges that buildDependencyGraph alone, on a fresh analyzer, records
\* for file k of the catalog
EdgesOfBuildAlone(catalog, k) ==
    LET file == catalog[k]
        dependencies ==
            IF file.size > 1048576 \/ file.type = "image" \/ ~disk[file.path].exists
            THEN <<>>
            ELSE extractDependencies(workspaceRoot, existingFiles(disk), file,
                                     disk[file.path].lines)
    IN  addDependencies(initialGraph(catalog), file.path, dependencies, 1).edges[file.path]

\* C20: when generateDependencySummary(p) has returned before a graph build
\* over a catalog holding p began, the build gives p the edges it gives p on
\* a fresh analyzer, and the summary lists what the build computed for p
C20_SummaryThenBuildAgree ==
    (summary.pc = "done" /\ summary.beforeBuild /\ build.pc = "done") =>
        \A k \in 1..Len(build.catalog) :
            build.catalog[k].path = summary.path =>
                /\ build.graph.edges[summary.path] = EdgesOfBuildAlone(build.catalog, k)
                /\ summary.listed = renderSummary(workspaceRoot, build.results[k])

\* C21: a finished summary carries the circular-dependency warning exactly
\* when the dependency list analyzeDependencies returned for the file holds
\* a dependency whose target is the file itself; a loop through another
\* file gives no warning
C21_WarningIffSelfDependency ==
    summary.pc = "done" =>
        ((summary.circular # <<>>) <=>
            \E k \in 1..Len(calls["summary"].result) :
                calls["summary"].result[k].target = summary.path)

\* the summary of /p/app.js, which imports itself, carries the warning
C21_Witness ==
    /\ summary.pc = "done"
    /\ summary.path = pApp
    /\ disk[pApp] = OnDisk(textSelf)
    /\ summary.circular = <<<<pApp, pApp>>>>

\* /p/app.js and /p/a.ts import each other, both are analysed, and the
\* summary of /p/app.js carries no warning
C21_WitnessLoopThroughOtherFile ==
    /\ summary.pc = "done"
    /\ summary.path = pApp
    /\ disk[pApp] = OnDisk(textApp)
    /\ disk[pA] = OnDisk(textA2)
    /\ build.pc = "done"
    /\ summary.circular = <<>>
    /\ Len(calls["summary"].result) > 0

-----------------------------------------------------------------------------
(* getFileDependencies                                                     *)

\* bound: largest maxDepth a caller passes
MaxDepth == 3

\* path.isAbsolute(filePath) ? filePath : path.join(this.workspaceRoot!, filePath)
absolutePathOf(root, filePath) ==
    IF startsWithSlash(filePath) THEN filePath ELSE joinWorkspace(root, filePath)

\* the FileInfo that getFileDependencies builds from the stat result
gfdFileInfo(d, filePath, absolutePath) ==
    FileInfo(absolutePath, determineFileTypeFromPath(filePath), statSize(d[absolutePath]),
             NoContent)

\* one call of getFileDependencies, at the await of fs.stat
GfdFrame(filePath, absolutePath, recursive, maxDepth) ==
    [filePath |-> filePath, path |-> absolutePath, recursive |-> recursive,
     maxDepth |-> maxDepth, pc |-> "stat", directDependencies |-> <<>>,
     allDependencies |-> <<>>, processedPaths |-> {}, k |-> 0]

\* a mutation: a call with maxDepth 0 still descends
gfdStopsLate(recursive, maxDepth) == ~recursive \/ maxDepth < 0

\* if (!recursive || maxDepth <= 0) return directDependencies
gfdStops(recursive, maxDepth) == ~recursive \/ maxDepth <= 0

\* for (const recursiveDep of recursiveDeps) if (!allDependencies.some(...)) push
RECURSIVE addUnique(_, _, _)
addUnique(allDependencies, recursiveDeps, j) ==
    IF j > Len(recursiveDeps) THEN allDependencies
    ELSE addUnique(
            IF \E i \in 1..Len(allDependencies) :
                  /\ allDependencies[i].source = recursiveDeps[j].source
                  /\ allDependencies[i].target = recursiveDeps[j].target
            THEN allDependencies
            ELSE Append(allDependencies, recursiveDeps[j]),
            recursiveDeps, j + 1)

\* the loop over directDependencies of the innermost call, from dependency k
\* to the next await (a nested call) or to the return; a return resumes the
\* caller's loop at once
RECURSIVE gfdLoop(_, _)
RECURSIVE gfdReturn(_, _, _)
gfdLoop(g, root) ==
    LET n == Len(g.stack)
        f == g.stack[n]
    IN  IF f.k > Len(f.directDependencies)
        THEN gfdReturn(g, root, f.allDependencies)
        ELSE LET dep == f.directDependencies[f.k] IN
             IF dep.target \in f.processedPaths \/ dep.isExternal
             THEN gfdLoop([g EXCEPT !.stack[n].k = f.k + 1], root)
             ELSE [g EXCEPT
                     !.stack = Append(
                         [@ EXCEPT ![n].processedPaths = @ \cup {dep.target},
                                   ![n].pc = "awaiting"],
                         GfdFrame(dep.target, absolutePathOf(root, dep.target),
                                  TRUE, f.maxDepth - 1)),
                     !.deepest = IF n > @ THEN n ELSE @,
                     !.stats = @ + 1]

\* the innermost call returns value to its caller, or to the outside
gfdReturn(g, root, value) ==
    LET n == Len(g.stack) IN
    IF n = 1
    THEN [g EXCEPT !.pc = "done", !.stack = <<>>, !.result = value]
    ELSE gfdLoop(
            [g EXCEPT !.stack =
                [i \in 1..(n - 1) |->
                    IF i < n - 1 THEN g.stack[i]
                    ELSE [g.stack[i] EXCEPT
                            !.allDependencies = addUnique(@, value, 1),
                            !.k = @ + 1,
                            !.pc = "loop"]]],
            root)

\* a caller calls getFileDependencies(filePath, recursive, maxDepth)
GfdCall(filePath, recursive, maxDepth) ==
    /\ gfd.pc \in {"idle", "done", "rejected"}
    /\ gfd' = [IdleGfd EXCEPT
                  !.pc = "running", !.path = absolutePathOf(workspaceRoot, filePath),
                  !.recursive = recursive, !.maxDepth = maxDepth,
                  !.stack = <<GfdFrame(filePath, absolutePathOf(workspaceRoot, filePath),
                                       recursive, maxDepth)>>,
                  !.stats = 1]
    /\ UNCHANGED <<anVars, cycVars, extVars, rev>>

\* fs.stat of the innermost call settles: without the file the call rejects,
\* and with it every call that awaits it (no call catches); with the file
\* the call goes on to analyzeDependencies
GfdStatDone ==
    /\ gfd.pc = "running"
    /\ gfd.stack[Len(gfd.stack)].pc = "stat"
    /\ LET n == Len(gfd.stack)
           f == gfd.stack[n]
       IN  IF f.path \in existingFiles(disk)
           THEN /\ gfd' = [gfd EXCEPT !.stack[n].pc = "analyzing"]
                /\ AnalyzeBegin("gfd", gfdFileInfo(disk, f.filePath, f.path))
           ELSE /\ gfd' = [gfd EXCEPT !.pc = "rejected", !.stack = <<>>]
                /\ UNCHANGED <<dependencyCache, calls, cacheWrites, firstResult>>
    /\ UNCHANGED <<workspaceRoot, disk, diskChanges, build, cycVars, extVars, rev>>

\* the direct dependencies arrive: the call returns them, or starts its loop
GfdResume ==
    /\ gfd.pc = "running"
    /\ gfd.stack[Len(gfd.stack)].pc = "analyzing"
    /\ calls["gfd"].pc = "returned"
    /\ LET n == Len(gfd.stack)
           f == gfd.stack[n]
           directDependencies == calls["gfd"].result
       IN  IF gfdStops(f.recursive, f.maxDepth)
           THEN gfd' = gfdReturn(gfd, workspaceRoot, directDependencies)
           ELSE gfd' = gfdLoop(
                          [gfd EXCEPT !.stack[n] =
                              [f EXCEPT !.directDependencies = directDependencies,
                                        !.allDependencies = directDependencies,
                                        !.processedPaths = {f.path},
                                        !.k = 1,
                                        !.pc = "loop"]],
                          workspaceRoot)
    /\ UNCHANGED <<anVars, cycVars, extVars, rev>>

-----------------------------------------------------------------------------
(* getFileDependencies over small projects                                 *)

\* /p/a.ts imports ./b or requires ./app and refers to ./b.ts, /p/app.js
\* imports ./a or itself, /p/b.ts is there or not (no other b.* ever is)
DepsDisks ==
    {[InitialDisk EXCEPT ![pA] = a, ![pApp] = app, ![pBts] = b] :
        a \in {OnDisk(textA1), OnDisk(textA2)},
        app \in {OnDisk(textApp), OnDisk(textSelf)},
        b \in {OnDisk(<<>>), Missing}}

\* the filePath arguments of the callers, absolute or relative to the root
DepsFilePaths == {pA, pApp, pHtml, Str("", <<>>, "app", ".js")}

InitDeps ==
    /\ CycIdle
    /\ ExtIdle
    /\ ReqIdle
    /\ workspaceRoot = [known |-> TRUE, dir |-> <<"p">>]
    /\ disk \in DepsDisks
    /\ diskChanges = 0
    /\ dependencyCache = EmptyMap
    /\ calls = [c \in Callers |-> IdleCall]
    /\ build = IdleBuild
    /\ cacheWrites = EmptyMap
    /\ firstResult = EmptyMap

\* calls of getFileDependencies, one after the other, on one analyzer
NextDeps ==
    \/ \E filePath \in DepsFilePaths, recursive \in BOOLEAN, maxDepth \in (-1)..MaxDepth :
          GfdCall(filePath, recursive, maxDepth)
    \/ GfdStatDone
    \/ ReadFileDone("gfd")
    \/ GfdResume

SpecDeps == InitDeps /\ [][NextDeps]_vars

\* the list analyzeDependencies computes for the file at p from the disk
DirectOf(p) ==
    IF p \notin existingFiles(disk) THEN <<>>
    ELSE LET file == CatalogFile(p, statSize(disk[p])) IN
         IF file.size > 1048576 \/ file.type = "image" THEN <<>>
         ELSE extractDependencies(workspaceRoot, existingFiles(disk), file, disk[p].lines)

\* a direct internal dependency of p has a target that is not on disk
HasUnresolvedTarget(p) ==
    \E k \in 1..Len(DirectOf(p)) :
        /\ ~DirectOf(p)[k].isExternal
        /\ DirectOf(p)[k].target \notin existingFiles(disk)

\* C22: a recursive getFileDependencies (maxDepth >= 1) on an existing file
\* with an unresolved internal reference completes normally and returns at
\* least the file's direct dependencies
C22_UnresolvedTargetTolerated ==
    (/\ gfd.pc \in {"done", "rejected"}
     /\ gfd.recursive
     /\ gfd.maxDepth >= 1
     /\ gfd.path \in existingFiles(disk)
     /\ HasUnresolvedTarget(gfd.path)) =>
        /\ gfd.pc = "done"
        /\ \A k \in 1..Len(DirectOf(gfd.path)) :
              DirectOf(gfd.path)[k] \in Range(gfd.result)

\* every file-system completion arrives and every continuation runs
SpecDepsFair ==
    /\ SpecDeps
    /\ WF_vars(GfdStatDone)
    /\ WF_vars(ReadFileDone("gfd"))
    /\ WF_vars(GfdResume)

\* the files reached from p over at most h internal dependencies
RECURSIVE WithinHops(_, _)
WithinHops(p, h) ==
    IF h <= 0 THEN {p}
    ELSE {p} \cup UNION {WithinHops(DirectOf(p)[k].target, h - 1) :
                            k \in {i \in 1..Len(DirectOf(p)) : ~DirectOf(p)[i].isExternal}}

\* the hops a call may go: maxDepth when recursive and positive, else none
HopsAllowed == IF gfd.recursive /\ gfd.maxDepth > 0 THEN gfd.maxDepth ELSE 0

C23Bounded ==
    /\ Len(gfd.stack) <= HopsAllowed + 1
    /\ gfd.deepest <= HopsAllowed
    /\ gfd.pc = "done" =>
          /\ \A k \in 1..Len(gfd.result) :
                gfd.result[k].source \in WithinHops(gfd.path, HopsAllowed)
          /\ HopsAllowed = 0 => gfd.result = DirectOf(gfd.path)

\* C23: a call of getFileDependencies never has more than maxDepth nested
\* calls open, returns only dependencies whose source is within maxDepth hops
\* of the file, returns exactly the direct list when it is not recursive or
\* maxDepth <= 0, and always settles, also in projects with import loops
C23_TerminatesWithinMaxDepth ==
    /\ []C23Bounded
    /\ (gfd.pc = "running") ~> (gfd.pc \in {"done", "rejected"})

\* /p/a.ts and /p/app.js import each other and a recursive call on /p/a.ts
\* with maxDepth 3 went three calls deep and returned
C23_Witness ==
    /\ gfd.pc = "done"
    /\ gfd.path = pA
    /\ gfd.recursive
    /\ gfd.maxDepth = 3
    /\ gfd.deepest = 3
    /\ disk[pA] = OnDisk(textA2)
    /\ disk[pApp] = OnDisk(textApp)
    /\ \E k \in 1..Len(gfd.result) : gfd.result[k].source = pApp

-----------------------------------------------------------------------------
(* getFileReverseDependencies beside the graph builder                     *)

\* getFileReverseDependencies from its entry to the first await
RevCall(filePath, catalog) ==
    /\ rev.pc = "idle"
    /\ rev' = [pc |-> "awaiting", target |-> absolutePathOf(workspaceRoot, filePath),
               catalog |-> catalog, i |-> 1, dependents |-> <<>>]
    /\ AnalyzeBegin("rev", catalog[1])
    /\ UNCHANGED <<workspaceRoot, disk, diskChanges, build, cycVars, extVars, gfd>>

\* the dependencies of file i arrive: the file is listed when one of them
\* targets the path, and the loop goes on to the next await or returns
RevResume ==
    /\ rev.pc = "awaiting"
    /\ calls["rev"].pc = "returned"
    /\ LET file == rev.catalog[rev.i]
           dependencies == calls["rev"].result
           dependents ==
               IF \E k \in 1..Len(dependencies) : dependencies[k].target = rev.target
               THEN Append(rev.dependents, file.path)
               ELSE rev.dependents
       IN  IF rev.i < Len(rev.catalog)
           THEN /\ rev' = [rev EXCEPT !.i = rev.i + 1, !.dependents = dependents]
                /\ AnalyzeBegin("rev", rev.catalog[rev.i + 1])
           ELSE /\ rev' = [rev EXCEPT !.pc = "done", !.dependents = dependents]
                /\ calls' = [calls EXCEPT !["rev"] = IdleCall]
                /\ UNCHANGED <<dependencyCache, cacheWrites, firstResult>>
    /\ UNCHANGED <<workspaceRoot, disk, diskChanges, build, cycVars, extVars, gfd>>

\* the paths a reverse lookup is asked about
RevTargets == {pA, pBts, pApp, Str("", <<>>, "app", ".js")}

InitReverse ==
    /\ InitAnalyzer
    /\ workspaceRoot = [known |-> TRUE, dir |-> <<"p">>]

\* one reverse lookup and one graph build on one analyzer, in any order and
\* overlapping, while /p/a.ts is edited
NextReverse ==
    \/ \E filePath \in RevTargets, catalog \in Catalogs : RevCall(filePath, catalog)
    \/ RevResume
    \/ \E catalog \in Catalogs : BuildStart(catalog)
    \/ BuildResume
    \/ \E c \in {"rev", "build"} : ReadFileDone(c)
    \/ \E st \in DiskStates(pA) : DiskChange(pA, st)

SpecReverse == InitReverse /\ [][NextReverse]_vars

\* the files of the graph that have an edge to t, in the order of the catalog
DependentsInGraph(graph, t) ==
    LET HasEdgeTo(f) == \E k \in 1..Len(graph.edges[f]) : graph.edges[f][k].target = t
    IN  SelectSeq(graph.nodes, HasEdgeTo)

\* C25: when a reverse lookup of a catalog file and a graph build over the
\* same catalog have both returned, the lookup lists exactly the files that
\* have an edge to that file in the graph, each once and in catalog order
C25_ReverseLookupAgreesWithGraph ==
    (/\ rev.pc = "done"
     /\ build.pc = "done"
     /\ rev.catalog = build.catalog
     /\ rev.target \in Range(build.graph.nodes)) =>
        rev.dependents = DependentsInGraph(build.graph, rev.target)

-----------------------------------------------------------------------------
(* ProjectScanner: the directory tree and the per-entry tasks              *)
(*                                                                         *)
(* An entry of a directory listing is [base, ext, kind, size, fails,       *)
(* entries]; fails says that stat (of a file) or readdir (of a directory)  *)
(* rejects.  A task is named by the positions that lead to its entry.      *)

ScanFile(base, ext, size, fails) ==
    [base |-> base, ext |-> ext, kind |-> "file", size |-> size, fails |-> fails,
     entries |-> <<>>]

ScanDir(base, fails, entries) ==
    [base |-> base, ext |-> "", kind |-> "dir", size |-> 0, fails |-> fails,
     entries |-> entries]

\* a directory entry that is neither a file nor a directory
ScanOther(base) ==
    [base |-> base, ext |-> "", kind |-> "other", size |-> 0, fails |-> FALSE,
     entries |-> <<>>]

excludedFolders ==
    {"node_modules", ".git", "dist", "out", "build", "coverage", ".vscode-test", ".vscode"}

\* a mutation: the glob pattern is compared as a plain name
shouldExcludeFileNoGlob(e) ==
    \/ e.base = "package-lock" /\ e.ext = ".json"
    \/ e.base = "yarn" /\ e.ext = ".lock"

\* excludedFiles: 'package-lock.json', 'yarn.lock' and the glob '*.log'
shouldExcludeFile(e) ==
    \/ e.base = "package-lock" /\ e.ext = ".json"
    \/ e.base = "yarn" /\ e.ext = ".lock"
    \/ e.ext = ".log"

\* a mutation: the missing workspace folder goes unnoticed
workspaceAvailableAlways(root) == TRUE

\* this.workspaceRoot is set
workspaceAvailable(root) == root.known

RECURSIVE entryAt(_, _)
entryAt(e, q) == IF q = <<>> THEN e ELSE entryAt(e.entries[Head(q)], Tail(q))

RECURSIVE namesAlong(_, _)
namesAlong(e, q) ==
    IF q = <<>> THEN <<>>
    ELSE <<e.entries[Head(q)].base>> \o namesAlong(e.entries[Head(q)], Tail(q))

\* path.join(dirPath, entry.name), from the workspace root down
entryPath(root, t, q) ==
    AbsPath(root.dir \o namesAlong(t, Front(q)), entryAt(t, q).base, entryAt(t, q).ext)

\* what the callback of entries.map does with an entry before its first
\* await: nothing more ("fulfilled"), readdir of a directory, stat of a file
entryTask(e) ==
    IF e.kind = "dir" /\ e.base \in excludedFolders THEN "fulfilled"
    ELSE IF e.kind = "file" /\ shouldExcludeFile(e) THEN "fulfilled"
    ELSE IF e.kind = "dir" THEN "readdir"
    ELSE IF e.kind = "file" THEN "stat"
    ELSE "fulfilled"

\* a task with the DirectoryInfo it fills when its entry is a directory
NewTask(pc) == [pc |-> pc, files |-> <<>>, directories |-> <<>>]

\* entries.map(async (entry) => ...) of the directory at q
spawn(s, t, q) ==
    LET entries == entryAt(t, q).entries
        started == {i \in 1..Len(entries) : entryTask(entries[i]) \in {"readdir", "stat"}}
    IN  [s EXCEPT
            !.tasks = [c \in {Append(q, i) : i \in 1..Len(entries)} |->
                          NewTask(entryTask(entries[c[Len(c)]]))] @@ s.tasks,
            !.fsOps = @ + Cardinality(started)]

\* a mutation: processedCount++ is missing
reportProgressNoCount(s) ==
    [s EXCEPT !.progress = IF s.callback
                           THEN Append(@, [num |-> s.processedCount + 1, den |-> s.n])
                           ELSE @]

\* reportProgress(): the callback gets (processedCount / entries.length) * 100
reportProgress(s) ==
    [s EXCEPT !.processedCount = @ + 1,
              !.progress = IF s.callback
                           THEN Append(@, [num |-> s.processedCount + 1, den |-> s.n])
                           ELSE @]

RECURSIVE reportProgressTimes(_, _)
reportProgressTimes(s, k) ==
    IF k = 0 THEN s ELSE reportProgressTimes(reportProgress(s), k - 1)

RECURSIVE collectAllFiles(_)
RECURSIVE collectFromDirectories(_, _)
collectAllFiles(dirInfo) ==
    dirInfo.files \o collectFromDirectories(dirInfo.directories, 1)

\* for (const subDir of dirInfo.directories) this.collectAllFiles(subDir, ...)
collectFromDirectories(directories, i) ==
    IF i > Len(directories) THEN <<>>
    ELSE collectAllFiles(directories[i]) \o collectFromDirectories(directories, i + 1)

\* the DirectoryInfo that scanDirectory returns for the directory at q
dirInfoOf(s, root, t, q) ==
    [path |-> entryPath(root, t, q), files |-> s.tasks[q].files,
     directories |-> s.tasks[q].directories]

\* scanDirectory at q returned: its caller pushes the DirectoryInfo, at the
\* root also flattens it into allFiles and reports progress
deliverDirectory(s, root, t, q) ==
    LET dirInfo == dirInfoOf(s, root, t, q)
        done == [s EXCEPT !.tasks[q].pc = "fulfilled"]
    IN  IF Len(q) = 1
        THEN reportProgress(
                [done EXCEPT !.structure.rootDirectories = Append(@, dirInfo),
                             !.structure.allFiles = @ \o collectAllFiles(dirInfo)])
        ELSE [done EXCEPT !.tasks[Front(q)].directories = Append(@, dirInfo)]

\* getFileInfo at q returned: its caller pushes the FileInfo
deliverFile(s, root, t, q) ==
    LET fileInfo == CatalogFile(entryPath(root, t, q), entryAt(t, q).size)
        done == [s EXCEPT !.tasks[q].pc = "fulfilled"]
    IN  IF Len(q) = 1
        THEN reportProgress(
                [done EXCEPT !.structure.rootFiles = Append(@, fileInfo),
                             !.structure.allFiles = Append(@, fileInfo)])
        ELSE [done EXCEPT !.tasks[Front(q)].files = Append(@, fileInfo)]

\* the tasks started for the entries of the directory at q
childrenOf(t, q) == {Append(q, i) : i \in 1..Len(entryAt(t, q).entries)}

\* await Promise.all(processingPromises) of the directory at q, looked at
\* after one of its promises settled: it rejects with the first rejection,
\* is fulfilled when every promise is, and the continuation of the caller
\* runs at once (promise reactions precede the next file-system event)
RECURSIVE settleUp(_, _, _, _)
settleUp(s, root, t, q) ==
    LET rejected == \E c \in childrenOf(t, q) : s.tasks[c].pc = "rejected"
        fulfilled == \A c \in childrenOf(t, q) : s.tasks[c].pc = "fulfilled"
    IN  IF q = <<>>
        THEN IF s.pc # "running" THEN s
             ELSE IF rejected THEN [s EXCEPT !.pc = "rejected", !.error = "ENOENT"]
             ELSE IF fulfilled THEN [s EXCEPT !.pc = "resolved"]
             ELSE s
        ELSE IF s.tasks[q].pc # "waiting" THEN s
             ELSE IF rejected
             THEN settleUp([s EXCEPT !.tasks[q].pc = "rejected"], root, t, Front(q))
             ELSE IF fulfilled
             THEN settleUp(deliverDirectory(s, root, t, q), root, t, Front(q))
             ELSE s

\* scanWorkspace from its entry to the await of readdir (or its throw);
\* entered and fsOps count on from the scanner's earlier calls
scanWorkspaceBegin(s, root, callback) ==
    IF ~workspaceAvailable(root)
    THEN [IdleScan EXCEPT !.pc = "rejected", !.error = "No workspace folder is open",
                          !.entered = s.entered + 1, !.fsOps = s.fsOps]
    ELSE [IdleScan EXCEPT !.pc = "readdir-root", !.callback = callback,
                          !.entered = s.entered + 1, !.fsOps = s.fsOps + 1]

\* no task of an earlier scan is still running
Quiescent == \A q \in DOMAIN scan.tasks : scan.tasks[q].pc \notin {"readdir", "stat"}

\* a caller calls scanWorkspace, with or without a progress callback
ScanCall(callback) ==
    /\ scan.pc = "idle"
    /\ filter.pc # "scanning"
    /\ scan' = scanWorkspaceBegin(scan, workspaceRoot, callback)
    /\ UNCHANGED <<anVars, cycVars, summary, tree, filter, reqVars>>

\* readdir of the workspace root settles: the scan rejects, or starts one
\* task per entry (entries done without an await report progress at once)
RootReaddirDone ==
    /\ scan.pc = "readdir-root"
    /\ IF tree.fails
       THEN scan' = [scan EXCEPT !.pc = "rejected", !.error = "ENOENT"]
       ELSE LET n == Len(tree.entries)
                atOnce == {i \in 1..n : entryTask(tree.entries[i]) = "fulfilled"}
                started == spawn([scan EXCEPT !.pc = "running", !.n = n], tree, <<>>)
            IN  scan' = settleUp(reportProgressTimes(started, Cardinality(atOnce)),
                                 workspaceRoot, tree, <<>>)
    /\ UNCHANGED <<anVars, cycVars, summary, tree, filter, reqVars>>

\* readdir of the directory at q settles (scanDirectory)
ReaddirDone(q) ==
    /\ q \in DOMAIN scan.tasks
    /\ scan.tasks[q].pc = "readdir"
    /\ IF entryAt(tree, q).fails
       THEN scan' = settleUp([scan EXCEPT !.tasks[q].pc = "rejected"],
                             workspaceRoot, tree, Front(q))
       ELSE scan' = settleUp(spawn([scan EXCEPT !.tasks[q].pc = "waiting"], tree, q),
                             workspaceRoot, tree, q)
    /\ UNCHANGED <<anVars, cycVars, summary, tree, filter, reqVars>>

\* stat of the file at q settles (getFileInfo)
StatDone(q) ==
    /\ q \in DOMAIN scan.tasks
    /\ scan.tasks[q].pc = "stat"
    /\ IF entryAt(tree, q).fails
       THEN scan' = settleUp([scan EXCEPT !.tasks[q].pc = "rejected"],
                             workspaceRoot, tree, Front(q))
       ELSE scan' = settleUp(deliverFile(scan, workspaceRoot, tree, q),
                             workspaceRoot, tree, Front(q))
    /\ UNCHANGED <<anVars, cycVars, summary, tree, filter, reqVars>>

\* structure.allFiles.filter(...).map(file => file.path), for criteria
\* that leave modifiedSince and excludePatterns undefined
applyCriteria(criteria, allFiles) ==
    LET Keep(file) ==
            /\ criteria.extensions = {} \/ file.extension \in criteria.extensions
            /\ ~criteria.maxSize.defined \/ file.size <= criteria.maxSize.value
        kept == SelectSeq(allFiles, Keep)
    IN  [i \in 1..Len(kept) |-> kept[i].path]

\* a caller calls filterFiles: it throws, or calls scanWorkspace
FilterCall(criteria) ==
    /\ filter.pc = "idle"
    /\ scan.pc \in {"idle", "resolved", "rejected"}
    /\ Quiescent
    /\ IF ~workspaceAvailable(workspaceRoot)
       THEN /\ filter' = [filter EXCEPT !.pc = "rejected", !.criteria = criteria,
                                        !.error = "No workspace folder is open"]
            /\ UNCHANGED scan
       ELSE /\ filter' = [filter EXCEPT !.pc = "scanning", !.criteria = criteria]
            /\ scan' = scanWorkspaceBegin(scan, workspaceRoot, FALSE)
    /\ UNCHANGED <<anVars, cycVars, summary, tree, reqVars>>

\* the scan of filterFiles settled: the error is thrown on, or the filters
\* are applied
FilterResume ==
    /\ filter.pc = "scanning"
    /\ scan.pc \in {"resolved", "rejected"}
    /\ IF scan.pc = "rejected"
       THEN filter' = [filter EXCEPT !.pc = "rejected", !.error = scan.error]
       ELSE filter' = [filter EXCEPT !.pc = "resolved",
                          !.result = applyCriteria(filter.criteria, scan.structure.allFiles)]
    /\ UNCHANGED <<anVars, cycVars, summary, tree, scan, reqVars>>

-----------------------------------------------------------------------------
(* The scanner over small workspaces                                       *)

\* src/{a.ts, lib/{util.ts}, node_modules/{x.js}, debug.log}, readme.md,
\* node_modules/{lodash.js}, package-lock.json and a symbolic link; aFails
\* and libFails make stat of src/a.ts and readdir of src/lib reject
Workspace(aFails, libFails) ==
    ScanDir("p", FALSE,
        <<ScanDir("src", FALSE,
              <<ScanFile("a", ".ts", 100, aFails),
                ScanDir("lib", libFails, <<ScanFile("util", ".ts", 50, FALSE)>>),
                ScanDir("node_modules", FALSE, <<ScanFile("x", ".js", 10, FALSE)>>),
                ScanFile("debug", ".log", 10, FALSE)>>),
          ScanFile("readme", ".md", 300, FALSE),
          ScanDir("node_modules", FALSE, <<ScanFile("lodash", ".js", 10, FALSE)>>),
          ScanFile("package-lock", ".json", 999, FALSE),
          ScanOther("link")>>)

ScanTrees ==
    {Workspace(FALSE, FALSE), Workspace(TRUE, FALSE), Workspace(FALSE, TRUE),
     ScanDir("p", FALSE, <<>>),
     ScanDir("p", TRUE, <<>>)}

\* the task names that can occur in these trees
ScanPositions == UNION {[1..n -> 1..5] : n \in 1..3}

FilterCriteria ==
    {[extensions |-> {}, maxSize |-> [defined |-> FALSE, value |-> 0]],
     [extensions |-> {".ts"}, maxSize |-> [defined |-> FALSE, value |-> 0]],
     [extensions |-> {".ts", ".md"}, maxSize |-> [defined |-> TRUE, value |-> 100]]}

\* a ProjectScanner constructed with or without a workspace folder
InitScanner ==
    /\ CycIdle
    /\ workspaceRoot \in {[known |-> FALSE, dir |-> <<>>], [known |-> TRUE, dir |-> <<"p">>]}
    /\ disk = EmptyMap
    /\ diskChanges = 0
    /\ dependencyCache = EmptyMap
    /\ calls = EmptyMap
    /\ build = IdleBuild
    /\ cacheWrites = EmptyMap
    /\ firstResult = EmptyMap
    /\ summary = IdleSummary
    /\ tree \in ScanTrees
    /\ scan = IdleScan
    /\ filter = IdleFilter
    /\ ReqIdle

NextScanner ==
    \/ \E callback \in BOOLEAN : ScanCall(callback)
    \/ RootReaddirDone
    \/ \E q \in ScanPositions : ReaddirDone(q)
    \/ \E q \in ScanPositions : StatDone(q)
    \/ \E criteria \in FilterCriteria : FilterCall(criteria)
    \/ FilterResume

SpecScanner == InitScanner /\ [][NextScanner]_vars

\* C15: without a workspace folder scanWorkspace and filterFiles reject with
\* the explicit error, no directory is read and no entry is examined, and
\* scanWorkspace is entered only by its direct caller (filterFiles does not
\* call it, nothing is tried again)
C15_NoWorkspaceFailsAtOnce ==
    ~workspaceRoot.known =>
        /\ scan.pc \in {"idle", "rejected"}
        /\ filter.pc \in {"idle", "rejected"}
        /\ scan.pc = "rejected" => scan.error = "No workspace folder is open"
        /\ filter.pc = "rejected" => filter.error = "No workspace folder is open"
        /\ scan.fsOps = 0
        /\ DOMAIN scan.tasks = {}
        /\ scan.entered = (IF scan.pc = "rejected" THEN 1 ELSE 0)

\* both operations were called without a workspace folder and both rejected
C15_Witness ==
    /\ ~workspaceRoot.known
    /\ scan.pc = "rejected"
    /\ filter.pc = "rejected"
    /\ tree = Workspace(FALSE, FALSE)

\* C26: once scanWorkspace has settled, resolved or rejected, every task it
\* started at any depth has settled: none awaits readdir or stat and no
\* directory waits for its entries
C26_SettlesAfterEveryTask ==
    scan.pc \in {"resolved", "rejected"} =>
        \A q \in DOMAIN scan.tasks : scan.tasks[q].pc \in {"fulfilled", "rejected"}

\* the paths of the files below the directory e (itself at dirNames) that
\* are neither named like an excluded file nor inside an excluded folder
RECURSIVE FilesToList(_, _)
FilesToList(dirNames, e) ==
    UNION {
        IF e.entries[i].kind = "file"
        THEN IF \/ <<e.entries[i].base, e.entries[i].ext>> \in
                      {<<"package-lock", ".json">>, <<"yarn", ".lock">>}
                \/ e.entries[i].ext = ".log"
             THEN {}
             ELSE {AbsPath(dirNames, e.entries[i].base, e.entries[i].ext)}
        ELSE IF e.entries[i].kind = "dir"
        THEN IF e.entries[i].base \in {"node_modules", ".git", "dist", "out", "build",
                                       "coverage", ".vscode-test", ".vscode"}
             THEN {}
             ELSE FilesToList(dirNames \o <<e.entries[i].base>>, e.entries[i])
        ELSE {} : i \in 1..Len(e.entries)}

\* C27: a resolved scanWorkspace lists in allFiles exactly the files under
\* the root that are not excluded by name or by an enclosing folder, each
\* once, and they are the root files plus the files of the trees in
\* rootDirectories
C27_AllFilesExactlyTheListedFiles ==
    scan.pc = "resolved" =>
        LET allFiles == scan.structure.allFiles
            paths == {allFiles[i].path : i \in 1..Len(allFiles)}
        IN  /\ paths = FilesToList(workspaceRoot.dir, tree)
            /\ Len(allFiles) = Cardinality(paths)
            /\ Range(allFiles) =
                  Range(scan.structure.rootFiles) \cup
                  UNION {Range(collectAllFiles(d)) : d \in Range(scan.structure.rootDirectories)}

\* the scan of the full workspace resolved, with /p/readme.md delivered
\* before the files of /p/src
C27_Witness ==
    /\ scan.pc = "resolved"
    /\ tree = Workspace(FALSE, FALSE)
    /\ Len(scan.structure.allFiles) = 3
    /\ scan.structure.allFiles[1].path = AbsPath(<<"p">>, "readme", ".md")
    /\ scan.structure.allFiles[3].path = AbsPath(<<"p", "src", "lib">>, "util", ".ts")

-----------------------------------------------------------------------------
(* A scan followed by a graph build over its result                        *)

\* the files of the workspace as readFile finds them; /p/src/a.ts imports
\* ./lib/util, is empty, or has been deleted since the scan
ScannedDisks ==
    {(AbsPath(<<"p", "src">>, "a", ".ts") :> a) @@
     (AbsPath(<<"p", "src", "lib">>, "util", ".ts") :> OnDisk(<<>>)) @@
     (AbsPath(<<"p">>, "readme", ".md") :>
         OnDisk(<<Line("link", Str("./", <<"src">>, "a", ".ts"))>>)) :
        a \in {OnDisk(<<Line("import", Str("./", <<"lib">>, "util", ""))>>),
               OnDisk(<<>>), Missing}}

\* a caller hands the structure of a resolved scan to buildDependencyGraph
BuildScanned ==
    /\ scan.pc = "resolved"
    /\ scan.structure.allFiles # <<>>
    /\ BuildStart(scan.structure.allFiles)

InitProgress ==
    /\ CycIdle
    /\ ReqIdle
    /\ workspaceRoot = [known |-> TRUE, dir |-> <<"p">>]
    /\ disk \in ScannedDisks
    /\ diskChanges = 0
    /\ dependencyCache = EmptyMap
    /\ calls = [c \in Callers |-> IdleCall]
    /\ build = IdleBuild
    /\ cacheWrites = EmptyMap
    /\ firstResult = EmptyMap
    /\ summary = IdleSummary
    /\ tree \in ScanTrees
    /\ scan = IdleScan
    /\ filter = IdleFilter

NextProgress ==
    \/ \E callback \in BOOLEAN : ScanCall(callback)
    \/ RootReaddirDone
    \/ \E q \in ScanPositions : ReaddirDone(q)
    \/ \E q \in ScanPositions : StatDone(q)
    \/ BuildScanned
    \/ BuildResume
    \/ ReadFileDone("build")

SpecProgress == InitProgress /\ [][NextProgress]_vars

\* every file-system completion arrives and every continuation runs
SpecProgressFair ==
    /\ SpecProgress
    /\ WF_vars(RootReaddirDone)
    /\ \A q \in ScanPositions : WF_vars(ReaddirDone(q)) /\ WF_vars(StatDone(q))
    /\ WF_vars(BuildResume)
    /\ WF_vars(ReadFileDone("build"))

\* the values of a progress report go up strictly
StrictlyIncreasing(progress) ==
    \A i, j \in 1..Len(progress) :
        i < j => progress[i].num * progress[j].den < progress[j].num * progress[i].den

\* n values, going up strictly, the last one 100
ReportsComplete(progress, n) ==
    /\ Len(progress) = n
    /\ StrictlyIncreasing(progress)
    /\ progress[n].num = progress[n].den

C28Reports ==
    /\ scan.callback => StrictlyIncreasing(scan.progress)
    /\ (scan.pc = "resolved" /\ scan.callback /\ scan.n >= 1) =>
          ReportsComplete(scan.progress, scan.n)
    /\ StrictlyIncreasing(build.progress)
    /\ build.pc = "done" => ReportsComplete(build.progress, Len(build.catalog))

\* C28: a scanWorkspace over n >= 1 root entries that resolves has called
\* its progress callback n times, a buildDependencyGraph over n >= 1 files
\* calls it n times and returns, the values go up strictly and the last one
\* is 100, in every completion order
C28_ProgressReachesHundred ==
    /\ []C28Reports
    /\ (build.pc = "awaiting") ~>
          (build.pc = "done" /\ ReportsComplete(build.progress, Len(build.catalog)))

\* the scan of the full workspace reported five values, the build over its
\* three files three
C28_Witness ==
    /\ scan.pc = "resolved"
    /\ scan.callback
    /\ Len(scan.progress) = 5
    /\ build.pc = "done"
    /\ Len(build.progress) = 3
====
